---- MODULE Spec2Model ----
(***************************************************************************)
(* Model of the task registry, worker pool, job state machine and bounded  *)
(* history cache of src/utils/scholar_crawler.py (GoogleScholarCrawler and *)
(* GoogleScholarSearchTask).                                               *)
(*                                                                         *)
(* Threads: API callers (scholar_info, cancel_task, get_search_status,     *)
(* get_recent_completed_tasks, get_all_tasks_status, shutdown) and the     *)
(* threads of the ThreadPoolExecutor.  The registry lock _task_lock is a   *)
(* threading.Lock: it is not reentrant, so a thread that asks for it while *)
(* holding it blocks forever.  concurrent.futures runs a done-callback in  *)
(* the thread that finishes or cancels the future, or at once in the       *)
(* thread that calls add_done_callback when the future is already done.    *)
(***************************************************************************)
EXTENDS Naturals, Integers, Sequences, FiniteSets, TLC

\* ------------------------------------------------------------------ bounds
\* Job objects created in one behaviour of Spec.
MaxJobs == 2
\* Pool size (constructor argument max_workers).
max_workers == 1
\* Search ids submitted in SpecHistory.
NumHistoryIds == 22
\* Item URLs a page lists at most in SpecJob.
MaxPapers == 3
\* Item URLs a page lists at most in SpecPublish.
MaxPublishPapers == 1
\* The longest list of names in an "authors" field.
MaxAuthorNames == 12
\* The longest text of a "description" field.
MaxDescription == 502

\* ------------------------------------------------------- program constants
max_completed_tasks == 20
None == -1

ClientIds == {"a"}
SearchIds == {"1", "2"}
Urls == {"u"}

\* URLItemStatus
ERROR == "error"
PENDING == "pending"
COLLECTING_INFO == "collecting_info"
COLLECTED_INFO == "collected_info"
SEARCHING_PAPERS == "searching_papers"
COMPLETED == "completed"

\* WS_EVENTS
UPDATE_FETCH_A_GOOGLE_SCHOLAR_URL_PROCESS == "update_fetch_a_google_scholar_url_process"
FETCHED_COMPLETED_WITH_PAPERS_INFO == "fetched_completed_with_papers_info"
FAILED_FETCH_A_GOOGLE_SCHOLAR_URL == "failed_fetch_a_google_scholar_url"

\* ----------------------------------------------------------------- helpers
\* d[k] = v  on a dict
Put(d, k, v) == [x \in (DOMAIN d) \cup {k} |-> IF x = k THEN v ELSE d[x]]
\* del d[k]
Del(d, k) == [x \in (DOMAIN d) \ {k} |-> d[x]]
\* k in list
InList(k, list) == \E i \in 1..Len(list) : list[i] = k
\* list[::-1]
Reverse(list) == [i \in 1..Len(list) |-> list[Len(list) + 1 - i]]

\* A text is a sequence of one-character strings.
\* \s
IsSpace(c) == c = " "

\* s.strip()
strip(s) ==
    LET kept == {i \in 1..Len(s) : ~IsSpace(s[i])}
    IN IF kept = {} THEN << >>
       ELSE SubSeq(s, CHOOSE i \in kept : \A j \in kept : i <= j,
                      CHOOSE i \in kept : \A j \in kept : j <= i)

\* task_id = f"{client_id}_{search_id}"
TaskId(client_id, search_id) == client_id \o "_" \o search_id

VARIABLES
    running_tasks,          \* keys of self.running_tasks
    completed_tasks,        \* self.completed_tasks: task_id -> record
    completed_tasks_order,  \* self.completed_tasks_order
    task,                   \* task_id -> the latest GoogleScholarSearchTask made for it
    queue,                  \* the executor's work queue (task ids, FIFO)
    executor_shutdown,      \* the executor refuses new work
    lock,                   \* holder of _task_lock, "free" when released
    caller,                 \* the API call that is inside a multi-step critical section
    shutdown_pc,            \* progress of a shutdown() call
    ret,                    \* what the last finished API call returned or raised
    clock,                  \* datetime.now(), counted in completions
    futures_submitted,      \* task_id -> number of futures ever handed to the pool
    completion_log,         \* task ids in the order _on_task_complete recorded them
    clients,                \* socket_manager.clients: client_id -> is_active
    call,                   \* a parsing function of the job, its argument and its result
    start_requests,         \* task_id -> client_id of the connection whose start message made its latest job
    connection              \* client_id -> where the coroutine that serves its websocket stands

vars == <<running_tasks, completed_tasks, completed_tasks_order, task, queue,
          executor_shutdown, lock, caller, shutdown_pc, ret, clock, futures_submitted,
          completion_log, clients, call, start_requests, connection>>

Idle == [op |-> "none", task_id |-> "", pc |-> "idle"]
NoReturn == [op |-> "none", task_id |-> "", value |-> "none", line |-> 0]

\* GoogleScholarSearchTask.__init__ followed by executor.submit: the future is PENDING.
NewSearchTask(url, client_id, search_id) ==
    [ client_id |-> client_id,
      search_id |-> search_id,
      url |-> url,
      future |-> "PENDING",
      done_callbacks |-> 0,
      pc |-> "queued",
      resume |-> "",
      driver |-> "none",
      index |-> 0,
      papers |-> <<>>,
      outcomes |-> <<>>,
      page |-> <<>>,
      published |-> <<>>,
      sends |-> <<>>,
      search_data |-> [ author_name |-> "",
                        status |-> PENDING,
                        progress |-> 0,
                        fetched_paper_count |-> None,
                        total_paper_count |-> None,
                        papers_urls |-> <<>>,
                        papers |-> <<>>,
                        error_message |-> "" ] ]

EmptyDict == [x \in {} |-> 0]
\* No parsing function is being evaluated.
NoCall == [fn |-> "none", pc |-> "idle"]

Init ==
    /\ running_tasks = {}
    /\ completed_tasks = EmptyDict
    /\ completed_tasks_order = << >>
    /\ task = EmptyDict
    /\ queue = << >>
    /\ executor_shutdown = FALSE
    /\ lock = "free"
    /\ caller = Idle
    /\ shutdown_pc = "idle"
    /\ ret = NoReturn
    /\ clock = 0
    /\ futures_submitted = EmptyDict
    /\ completion_log = << >>
    /\ clients = EmptyDict
    /\ start_requests = EmptyDict
    /\ connection = EmptyDict
    /\ call = NoCall

\* Futures handed to the pool so far, over all identities.
RECURSIVE SumOver(_, _)
SumOver(counts, keys) ==
    IF keys = {} THEN 0
    ELSE LET k == CHOOSE x \in keys : TRUE
         IN counts[k] + SumOver(counts, keys \ {k})
JobsCreated == SumOver(futures_submitted, DOMAIN futures_submitted)

\* ------------------------------------------------ GoogleScholarSearchTask
\* _serialize_search_data: the snapshot handed to the Progress Publisher.
serialize_search_data(t) == t.search_data

\* ConnectionClient.send: an inactive client is not written to (line 121); a
\* message that cannot be serialized or written marks the client inactive
\* (lines 133-138); otherwise the message is sent (lines 130-132).
\* transport: "sent" or "raises".
ConnectionClient_send(is_active, transport) ==
    IF ~is_active THEN [returned |-> FALSE, line |-> 121, is_active |-> FALSE]
    ELSE IF transport = "raises"
    THEN [returned |-> FALSE, line |-> 138, is_active |-> FALSE]
    ELSE [returned |-> TRUE, line |-> 132, is_active |-> TRUE]

\* client_id is None.  None and a client id are values of different kinds,
\* which are told apart by how they are written.
is_None(client_id) == ToString(client_id) = ToString(None)

\* ConnectionManager.send.  To one client (lines 409-415): a client that is
\* not registered gets nothing (414), a registered one gets
\* ConnectionClient.send.  With client_id None, to every registered client
\* (417-428): transport then maps each client to what its write does, every
\* client gets ConnectionClient.send, and the call returns whether one of
\* them was written.
ConnectionManager_send(connections, client_id, transport) ==
    IF is_None(client_id)
    THEN LET r == [c \in DOMAIN connections |->
                     ConnectionClient_send(connections[c], transport[c])]
         IN [returned |-> \E c \in DOMAIN connections : r[c].returned,
             line |-> 428,
             clients |-> [c \in DOMAIN connections |-> r[c].is_active]]
    ELSE IF client_id \notin DOMAIN connections
    THEN [returned |-> FALSE, line |-> 414, clients |-> connections]
    ELSE LET r == ConnectionClient_send(connections[client_id], transport)
         IN [returned |-> r.returned, line |-> r.line,
             clients |-> Put(connections, client_id, r.is_active)]

\* The client objects ids leave self.clients (they are removed or replaced):
\* a job whose write to one of them is under way (send_text, line 130) holds
\* an object that is no longer the registered one.
Unregistered(tasks, ids) ==
    [k \in DOMAIN tasks |->
       IF tasks[k].pc = "send_text" /\ tasks[k].client_id \in ids
       THEN [tasks[k] EXCEPT !.pc = "send_text_unregistered"]
       ELSE tasks[k]]

\* The event loop thread is not inside a synchronous message handler: the
\* handler calls scholar_info directly (ws/event_handler.py line 36), so while
\* the call made for a message of some connection is under way ("handling")
\* no coroutine of the loop goes on.  A call of another thread does not hold
\* the loop.
EventLoopFree == \A c \in DOMAIN connection : connection[c] # "handling"

\* ConnectionManager.connect up to the await of the greeting write: the
\* websocket is accepted and the client stored, active (lines 196-200).
connect(client_id) ==
    /\ ret = NoReturn
    /\ EventLoopFree
    /\ clients' = Put(clients, client_id, TRUE)
    /\ task' = Unregistered(task, {client_id})
    /\ connection' = Put(connection, client_id, "greeting")
    /\ UNCHANGED <<start_requests, call, running_tasks, completed_tasks, completed_tasks_order, queue,
                   executor_shutdown, lock, caller, shutdown_pc, ret, clock,
                   futures_submitted, completion_log>>

\* The rest of connect: the write of the client_connected message (line 203,
\* ConnectionClient.send 130) returns or raises, and connect returns.  A write
\* that raises marks the client inactive (137), one that returns leaves it as
\* it is by then; a client removed in the meantime is no longer in clients.
connect_greeting(client_id, transport) ==
    /\ ret = NoReturn
    /\ EventLoopFree
    /\ client_id \in DOMAIN connection
    /\ connection[client_id] = "greeting"
    /\ clients' = IF client_id \in DOMAIN clients
                  THEN Put(clients, client_id, clients[client_id] /\ transport = "sent")
                  ELSE clients
    /\ connection' = [connection EXCEPT ![client_id] = "connected"]
    /\ UNCHANGED <<start_requests, call, running_tasks, completed_tasks, completed_tasks_order, task, queue,
                   executor_shutdown, lock, caller, shutdown_pc, ret, clock,
                   futures_submitted, completion_log>>

\* ConnectionManager.disconnect: of all clients when client_id is None (every
\* client is deactivated and the dict cleared, lines 215-221), else of the
\* one client when it is registered (222-226), else of nothing (227-228).
disconnect(client_id) ==
    /\ ret = NoReturn
    /\ EventLoopFree
    /\ clients' = IF is_None(client_id) THEN EmptyDict
                  ELSE IF client_id \in DOMAIN clients THEN Del(clients, client_id)
                  ELSE clients
    /\ task' = Unregistered(task, IF is_None(client_id) THEN DOMAIN clients
                                  ELSE {client_id})
    /\ UNCHANGED <<connection, start_requests, call, running_tasks, completed_tasks, completed_tasks_order, queue,
                   executor_shutdown, lock, caller, shutdown_pc, ret, clock,
                   futures_submitted, completion_log>>

\* The call socket_manager.send(event, self._serialize_search_data(),
\* self.client_id): published logs the snapshots handed over.
publish(t, event) ==
    [t EXCEPT !.published = Append(@, [ event |-> event,
                                        client_id |-> t.client_id,
                                        data |-> serialize_search_data(t) ])]

\* The await of the call ends: the job drops the returned value.  sends logs
\* what each call returned.
sent(t, returned) == [t EXCEPT !.sends = Append(@, returned)]

\* A job that gives up when a message could not be delivered.
send_or_fail(t, event, r) ==
    [sent(publish(t, event), r.returned) EXCEPT
       !.search_data.status = IF r.returned THEN @ ELSE ERROR,
       !.search_data.error_message = IF r.returned THEN @ ELSE "send failed"]

\* await socket_manager.send(...) for a call that ends without waiting for a
\* write that raises; r is what ConnectionManager.send did.
send(t, event, r) == sent(publish(t, event), r.returned)

\* ---------------------------------------------- float arithmetic of line 405
\* A Python float is a binary64: a significand of mantissa_bits binary digits
\* (most significant first, the first one 1) times 2^exp.  Long numbers are
\* worked on limb_bits digits at a time.
mantissa_bits == 53
limb_bits == 9

RECURSIVE Pow2(_)
Pow2(s) == IF s = 0 THEN 1 ELSE 2 * Pow2(s - 1)

Zeros(n) == [i \in 1..n |-> 0]

\* int of the first i binary digits of a sequence.
RECURSIVE BitsValue(_, _)
BitsValue(bits, i) == IF i = 0 THEN 0 ELSE 2 * BitsValue(bits, i - 1) + bits[i]

\* A sequence of binary digits without its leading zeros.
Normal(bits) ==
    IF \A i \in 1..Len(bits) : bits[i] = 0 THEN << >>
    ELSE LET first == CHOOSE i \in 1..Len(bits) :
                          bits[i] = 1 /\ \A j \in 1..(i - 1) : bits[j] = 0
         IN SubSeq(bits, first, Len(bits))

\* The digits in groups of limb_bits, each group as an integer, and back.
BitsToLimbs(bits) ==
    LET count == (Len(bits) + limb_bits - 1) \div limb_bits
        padded == Zeros(count * limb_bits - Len(bits)) \o bits
    IN [j \in 1..count |->
           BitsValue(SubSeq(padded, limb_bits * (j - 1) + 1, limb_bits * j), limb_bits)]
LimbsToBits(limbs) ==
    [i \in 1..(limb_bits * Len(limbs)) |->
        (limbs[((i - 1) \div limb_bits) + 1]
            \div Pow2(limb_bits - 1 - ((i - 1) % limb_bits))) % 2]

\* limbs[1..i] times the small integer n (n < 2^limb_bits), plus carry.
RECURSIVE LimbsTimes(_, _, _, _)
LimbsTimes(limbs, n, i, carry) ==
    IF i = 0 THEN IF carry = 0 THEN << >> ELSE <<carry>>
    ELSE LET v == limbs[i] * n + carry
         IN IF v < Pow2(limb_bits) THEN LimbsTimes(limbs, n, i - 1, 0) \o <<v>>
            ELSE LimbsTimes(limbs, n, i - 1, v \div Pow2(limb_bits))
                     \o <<v % Pow2(limb_bits)>>

\* The binary digits of bits times n.
BitsTimes(bits, n) ==
    Normal(LimbsToBits(LimbsTimes(BitsToLimbs(bits), n, Len(BitsToLimbs(bits)), 0)))

\* bits plus one, for bits that are not all 1.
Increment(bits) ==
    LET last == CHOOSE i \in 1..Len(bits) :
                    bits[i] = 0 /\ \A j \in (i + 1)..Len(bits) : bits[j] = 1
    IN [i \in 1..Len(bits) |-> IF i < last THEN bits[i] ELSE IF i = last THEN 1 ELSE 0]

\* IEEE 754 round-to-nearest, ties to even: the binary64 nearest to
\* bits * 2^exp (bits starts with 1).
RoundToNearestEven(bits, exp) ==
    IF Len(bits) <= mantissa_bits
    THEN [mant |-> bits \o Zeros(mantissa_bits - Len(bits)),
          exp |-> exp - (mantissa_bits - Len(bits))]
    ELSE LET head == SubSeq(bits, 1, mantissa_bits)
             rest == SubSeq(bits, mantissa_bits + 1, Len(bits))
             sticky == \E i \in 2..Len(rest) : rest[i] = 1
             up == rest[1] = 1 /\ (sticky \/ head[mantissa_bits] = 1)
             cut == exp + Len(rest)
         IN IF ~up THEN [mant |-> head, exp |-> cut]
            ELSE IF \A i \in 1..mantissa_bits : head[i] = 1
            THEN [mant |-> <<1>> \o Zeros(mantissa_bits - 1), exp |-> cut + 1]
            ELSE [mant |-> Increment(head), exp |-> cut]

\* The next n limbs of rem / b (rem < b < 2^22), and after them a limb that
\* says whether anything is left.
RECURSIVE QuotientLimbs(_, _, _)
QuotientLimbs(rem, b, n) ==
    IF n = 0 THEN IF rem = 0 THEN <<0>> ELSE <<1>>
    ELSE IF rem = 0 THEN <<0>> \o QuotientLimbs(0, b, n - 1)
    ELSE <<(rem * Pow2(limb_bits)) \div b>>
             \o QuotientLimbs((rem * Pow2(limb_bits)) % b, b, n - 1)

\* The s with b <= a * 2^s < 2 * b, for 0 < a <= b.
RECURSIVE Shift(_, _)
Shift(a, b) == IF a >= b THEN 0 ELSE 1 + Shift(2 * a, b)

\* a * 1.0 / b for integers 0 < a <= b < 2^22: the quotient to more digits
\* than the significand holds and the digits for what is left, rounded.
quotient_limbs == 6
truediv(a, b) ==
    LET s == Shift(a, b)
        digits == <<1>> \o LimbsToBits(QuotientLimbs(a * Pow2(s) - b, b, quotient_limbs))
    IN RoundToNearestEven(digits, 1 - s - Len(digits))

\* x * n for a float x and a small integer n: the exact product, rounded.
mul(x, n) == RoundToNearestEven(BitsTimes(x.mant, n), x.exp)

\* round(x, 2) in hundredths, for a float 0 < x < 2^20: the integer nearest
\* to the exact value of x times 100, and of two equally near ones the even
\* one (float.__round__ rounds the exact binary value correctly).
round_2(x) ==
    LET product == BitsTimes(x.mant, 100)
        places == 0 - x.exp
        padded == Zeros(places - Len(product)) \o product
        whole == BitsValue(padded, Len(padded) - places)
        fraction == SubSeq(padded, Len(padded) - places + 1, Len(padded))
        half == fraction # << >> /\ fraction[1] = 1
        more == \E i \in 2..Len(fraction) : fraction[i] = 1
    IN IF half /\ (more \/ whole % 2 = 1) THEN whole + 1 ELSE whole

\* A progress computed from the items still to fetch.
ProgressRemaining(fetched, total) ==
    2500 + ((2 * 7000 * (total - fetched) + total) \div (2 * total))

\* A progress cut to two decimals instead of rounded.
ProgressTruncated(fetched, total) == 2500 + ((7000 * fetched) \div total)

\* 25 + round((index + 1) * 1.0 / len(papers_urls) * 70, 2), in hundredths:
\* the division and the multiplication are float operations, each rounded to
\* a binary64, and round() works on the float they give (3 of 400 gives
\* 0.525000000000000022..., which rounds to 0.53).
Progress(fetched, total) == 2500 + round_2(mul(truediv(fetched, total), 70))

\* Progress on the pages of up to MaxPapers items, worked out once.
ProgressOnPage ==
    [total \in 1..MaxPapers |-> [fetched \in 1..total |-> Progress(fetched, total)]]

\* A pool thread is occupied by a job from pickup until its done-callback returned.
Busy == {k \in DOMAIN task : task[k].pc \notin {"queued", "returned", "dropped"}}

\* ThreadPoolExecutor worker: take the head of the work queue; a cancelled
\* future is dropped (set_running_or_notify_cancel), any other starts run_sync.
worker_pickup ==
    /\ ret = NoReturn
    /\ queue # << >>
    /\ Cardinality(Busy) < max_workers
    /\ LET k == Head(queue) IN
         /\ queue' = Tail(queue)
         /\ task' = IF task[k].future = "CANCELLED"
                    THEN [task EXCEPT ![k].pc = "dropped"]
                    ELSE [task EXCEPT ![k].future = "RUNNING",
                                      ![k].pc = "initialize_driver"]
    /\ UNCHANGED <<connection, start_requests, call, clients, running_tasks, completed_tasks, completed_tasks_order,
                   executor_shutdown, lock, caller, shutdown_pc, ret, clock,
                   futures_submitted, completion_log>>

\* A step of job k that sends nothing.
JobStep(k, t) ==
    /\ ret = NoReturn
    /\ task' = [task EXCEPT ![k] = t]
    /\ UNCHANGED <<connection, start_requests, call, running_tasks, completed_tasks, completed_tasks_order, queue,
                   executor_shutdown, lock, caller, shutdown_pc, ret, clock,
                   futures_submitted, completion_log, clients>>

\* A step of job k that ends with a send to its client.  A write that
\* raises (ConnectionClient.send, line 130) is awaited first: the job is at
\* send_text, holding the registered client object, until the except clause
\* runs; every other call ends in this step.
JobSend(k, t, event, transport) ==
    LET r == ConnectionManager_send(clients, t.client_id, transport) IN
    /\ ret = NoReturn
    /\ IF r.line = 138
       THEN /\ task' = [task EXCEPT ![k] = [publish(t, event) EXCEPT
                                              !.resume = t.pc,
                                              !.pc = "send_text"]]
            /\ UNCHANGED clients
       ELSE /\ task' = [task EXCEPT ![k] = send(t, event, r)]
            /\ clients' = r.clients
    /\ UNCHANGED <<connection, start_requests, call, running_tasks, completed_tasks, completed_tasks_order, queue,
                   executor_shutdown, lock, caller, shutdown_pc, ret, clock,
                   futures_submitted, completion_log>>

\* ConnectionClient.send, the except clause after send_text raised (lines
\* 133-138): the client object the job holds is marked inactive, which shows
\* in self.clients when it is still the registered one, and the call returns
\* False (138, 415); the job goes on where the send was made.
ConnectionClient_send_raises(k) ==
    /\ ret = NoReturn
    /\ k \in DOMAIN task
    /\ task[k].pc \in {"send_text", "send_text_unregistered"}
    /\ task' = [task EXCEPT ![k] = [sent(task[k], FALSE) EXCEPT
                                      !.pc = task[k].resume,
                                      !.resume = ""]]
    /\ clients' = IF task[k].pc = "send_text" /\ task[k].client_id \in DOMAIN clients
                  THEN Put(clients, task[k].client_id, FALSE)
                  ELSE clients
    /\ UNCHANGED <<connection, start_requests, call, running_tasks, completed_tasks, completed_tasks_order, queue,
                   executor_shutdown, lock, caller, shutdown_pc, ret, clock,
                   futures_submitted, completion_log>>

\* A driver failure that fills in no error_message.
initialize_driver_silent(k, ok) ==
    /\ k \in DOMAIN task
    /\ task[k].pc = "initialize_driver"
    /\ JobStep(k, IF ok
                  THEN [task[k] EXCEPT !.driver = "open", !.pc = "collect_scholar_info",
                                       !.page = Append(@, "driver_ok")]
                  ELSE [task[k] EXCEPT !.search_data.status = ERROR,
                                       !.page = Append(@, "driver_fails"),
                                       !.pc = "send_failed"])

\* _initialize_driver, and run's early exit when it fails.
initialize_driver(k, ok) ==
    /\ k \in DOMAIN task
    /\ task[k].pc = "initialize_driver"
    /\ JobStep(k, IF ok
                  THEN [task[k] EXCEPT !.driver = "open", !.pc = "collect_scholar_info",
                                       !.page = Append(@, "driver_ok")]
                  ELSE [task[k] EXCEPT !.search_data.status = ERROR,
                                       !.search_data.error_message = "WebDriver init failed",
                                       !.page = Append(@, "driver_fails"),
                                       !.pc = "send_failed"])

\* _collect_scholar_info, entry: the status is assigned (line 156), and the
\* worker then waits for the page in driver.get and time.sleep (160-162).
collect_scholar_info(k) ==
    /\ k \in DOMAIN task
    /\ task[k].pc = "collect_scholar_info"
    /\ JobStep(k, [task[k] EXCEPT !.search_data.status = COLLECTING_INFO,
                                  !.pc = "extract_author_info"])

\* _collect_scholar_info after the wait, up to _extract_author_info.
\* outcome: "author" (name resolved), "no_author" (no selector and no page
\* title gave a name), "get_raises" (driver.get raised).  A driver another
\* thread closed either was closed before driver.get, which raises (the
\* except clause of lines 184-188), or during the sleep of line 162, and then
\* _extract_author_info raises inside and returns False (226-228, 165-166):
\* "closed".  page logs what the driver and the author page did.
extract_author_info(k, outcome, transport) ==
    /\ k \in DOMAIN task
    /\ task[k].pc = "extract_author_info"
    /\ \E o \in (IF task[k].driver = "open" THEN {outcome}
                 ELSE {"get_raises", "closed"}) :
       LET t == [task[k] EXCEPT !.page = Append(@, o)]
       IN CASE o = "get_raises" ->
                 JobStep(k, [t EXCEPT !.search_data.status = ERROR,
                                      !.search_data.error_message = "collect failed",
                                      !.pc = "send_failed"])
            [] o \in {"no_author", "closed"} ->
                 JobStep(k, [t EXCEPT !.pc = "send_failed"])
            [] OTHER ->
                 JobSend(k, [t EXCEPT !.search_data.author_name = "author",
                                      !.pc = "collect_paper_urls"],
                         UPDATE_FETCH_A_GOOGLE_SCHOLAR_URL_PROCESS, transport)

\* An element of the list without a usable link: its href is None.
NoHref == 0

\* A list of item URLs that keeps every link of the page.
papers_urls_with_repeats(hrefs) == SelectSeq(hrefs, LAMBDA h : h # NoHref)

\* if paper_url and paper_url not in papers_urls: papers_urls.append(paper_url)
RECURSIVE AppendNewUrls(_, _)
AppendNewUrls(urls, hrefs) ==
    IF hrefs = << >> THEN urls
    ELSE AppendNewUrls(IF Head(hrefs) # NoHref /\ ~InList(Head(hrefs), urls)
                       THEN Append(urls, Head(hrefs)) ELSE urls,
                       Tail(hrefs))

\* The loop of _collect_paper_urls over the elements of the list: hrefs are
\* their links in page order.
papers_urls(hrefs) == AppendNewUrls(<< >>, hrefs)

\* The links the loop of _collect_paper_urls reads: all of them from an
\* open driver.  Once another thread closed the driver, reading an element
\* raises and the loop goes on to the next one (except Exception: continue),
\* so the links read are those of the elements before the driver was closed.
LinksRead(driver, hrefs) ==
    IF driver = "open" THEN {hrefs}
    ELSE {SubSeq(hrefs, 1, n) : n \in 0..Len(hrefs)}

\* _collect_paper_urls on a page whose list elements link to hrefs, the rest
\* of _collect_scholar_info, and run's progress event after it succeeded.
\* A driver closed before find_elements (line 345) raises there: the method
\* returns False having assigned nothing (385-387); one closed later still
\* has its elements counted (377-378).
collect_paper_urls(k, hrefs, transport) ==
    /\ k \in DOMAIN task
    /\ task[k].pc = "collect_paper_urls"
    /\ \/ /\ task[k].driver # "open"
          /\ JobStep(k, [task[k] EXCEPT !.page = Append(@, "closed"),
                                        !.pc = "send_failed"])
       \/ \E read \in LinksRead(task[k].driver, hrefs) :
            LET total_paper_count == Len(papers_urls(read))
                t == [task[k] EXCEPT !.search_data.total_paper_count = total_paper_count,
                                     !.search_data.papers_urls = papers_urls(read),
                                     !.page = Append(@, ToString(read))]
            IN IF ~(total_paper_count > 0)
               THEN JobStep(k, [t EXCEPT !.pc = "send_failed"])
               ELSE JobSend(k, [t EXCEPT !.search_data.fetched_paper_count = 0,
                                         !.search_data.status = COLLECTED_INFO,
                                         !.search_data.progress = 2500,
                                         !.pc = "search_papers_details"],
                            UPDATE_FETCH_A_GOOGLE_SCHOLAR_URL_PROCESS, transport)

\* An entry of _search_papers_details that leaves the status as it is.
search_papers_details_same_status(k) ==
    /\ k \in DOMAIN task
    /\ task[k].pc = "search_papers_details"
    /\ JobStep(k, [task[k] EXCEPT !.papers = << >>,
                                  !.index = 0,
                                  !.pc = "search_item"])

\* _search_papers_details, entry.
search_papers_details(k) ==
    /\ k \in DOMAIN task
    /\ task[k].pc = "search_papers_details"
    /\ JobStep(k, [task[k] EXCEPT !.search_data.status = SEARCHING_PAPERS,
                                  !.papers = << >>,
                                  !.index = 0,
                                  !.pc = "search_item"])

\* "View article", the text of a link the title selectors also match.
ViewArticle == <<"V", "i", "e", "w", " ", "a", "r", "t", "i", "c", "l", "e">>

\* The og:title meta element of an item page: there is none, or it has a
\* content attribute.
NoMeta == [found |-> FALSE, content |-> << >>]
Meta(content) == [found |-> TRUE, content |-> content]

\* What an item page shows for its title: the texts of the elements the
\* title selectors find, in the order tried, and the meta element.
\*   "record"      a link text "View article" and a heading
\*   "blank_meta"  the link text, a short heading and a meta title of blanks
\*   "none"        (and a closed driver) nothing
ItemPage(outcome) ==
    CASE outcome = "record" ->
           [titles |-> <<ViewArticle, <<" ", "A", " ", "t", "i", "t", "l", "e", " ">>>>,
            meta |-> NoMeta]
      [] outcome = "blank_meta" ->
           [titles |-> <<ViewArticle, <<"A", " ", "b", "c">>>>,
            meta |-> Meta(<<" ", " ", " ", " ", " ", " ">>)]
      [] OTHER -> [titles |-> << >>, meta |-> NoMeta]

\* The loop over the title selectors (lines 503-512): the first text that,
\* stripped, is longer than 5 characters and is not "View article".
RECURSIVE selector_title(_)
selector_title(texts) ==
    IF texts = << >> THEN << >>
    ELSE LET title == strip(Head(texts))
         IN IF title # << >> /\ Len(title) > 5 /\ title # ViewArticle
            THEN title
            ELSE selector_title(Tail(texts))

\* The fallback to the meta element (lines 515-523): a content longer than 5
\* characters is taken, stripped.
meta_title(meta) ==
    IF meta.found /\ meta.content # << >> /\ Len(meta.content) > 5
    THEN strip(meta.content)
    ELSE << >>

\* paper_info["title"] at line 628.
paper_title(page) ==
    IF selector_title(page.titles) # << >> THEN selector_title(page.titles)
    ELSE meta_title(page.meta)

\* A loop that appends whatever the page gave, title or not.
ExtractedPapersAlways(papers, outcome, paper_url) ==
    Append(papers, [url |-> paper_url, title |-> paper_title(ItemPage(outcome))])

\* if paper_info: papers.append(paper_info).  _extract_paper_details returns
\* None for a page without a title (lines 628-630), else a PaperBase of it.
ExtractedPapers(papers, outcome, paper_url) ==
    IF paper_title(ItemPage(outcome)) # << >>
    THEN Append(papers, [url |-> paper_url, title |-> paper_title(ItemPage(outcome))])
    ELSE papers

\* The head of an iteration of the loop of _search_papers_details: the count
\* and the progress are assigned (lines 404-405), and the worker then waits
\* for the item page in driver.get and time.sleep (410-411).
search_item(k) ==
    /\ k \in DOMAIN task
    /\ task[k].pc = "search_item"
    /\ LET total == Len(task[k].search_data.papers_urls)
           index == task[k].index
       IN JobStep(k, [task[k] EXCEPT
                        !.search_data.fetched_paper_count = index + 1,
                        !.search_data.progress =
                            IF total \in DOMAIN ProgressOnPage
                            THEN ProgressOnPage[total][index + 1]
                            ELSE Progress(index + 1, total),
                        !.pc = "extract_paper_details"])

\* The rest of the iteration, after the wait (lines 410-425).  outcome: what
\* the item page shows (ItemPage), or "raise" (driver.get raised: the except
\* clause continues without sending).  A driver another thread closed either
\* was closed before driver.get, which raises, or during the sleep of line
\* 411, and then _extract_paper_details raises inside and returns None
\* (649-651): "none".  outcomes logs what each item page did.
extract_paper_details(k, outcome, transport) ==
    /\ k \in DOMAIN task
    /\ task[k].pc = "extract_paper_details"
    /\ \E o \in (IF task[k].driver = "open" THEN {outcome} ELSE {"raise", "none"}) :
       LET total == Len(task[k].search_data.papers_urls)
           index == task[k].index
           t0 == [task[k] EXCEPT
                    !.index = index + 1,
                    !.outcomes = Append(@, o),
                    !.pc = IF index + 1 = total THEN "search_finish" ELSE "search_item"]
           t1 == [t0 EXCEPT !.papers =
                    ExtractedPapers(@, o, task[k].search_data.papers_urls[index + 1])]
       IN IF o = "raise" THEN JobStep(k, t0)
          ELSE JobSend(k, t1, UPDATE_FETCH_A_GOOGLE_SCHOLAR_URL_PROCESS, transport)

\* _search_papers_details, after the loop: the papers and the status are
\* assigned (lines 428-429) ...
search_finish(k) ==
    /\ k \in DOMAIN task
    /\ task[k].pc = "search_finish"
    /\ JobStep(k, [task[k] EXCEPT !.search_data.papers = task[k].papers,
                                  !.search_data.status = COMPLETED,
                                  !.pc = "search_finish_progress"])

\* A search that ends with the progress the loop left.
search_finish_progress_skipped(k) ==
    /\ k \in DOMAIN task
    /\ task[k].pc = "search_finish_progress"
    /\ JobStep(k, [task[k] EXCEPT !.pc = "send_completed"])

\* _search_papers_details, after the status the progress (line 430).  The
\* worker holds no lock, so a reader can see the job between the two.
search_finish_progress(k) ==
    /\ k \in DOMAIN task
    /\ task[k].pc = "search_finish_progress"
    /\ JobStep(k, [task[k] EXCEPT !.search_data.progress = 10000,
                                  !.pc = "send_completed"])

\* run: the event sent after _search_papers_details returned.
send_completed(k, transport) ==
    /\ k \in DOMAIN task
    /\ task[k].pc = "send_completed"
    /\ JobSend(k, [task[k] EXCEPT !.pc = "cleanup"],
               FETCHED_COMPLETED_WITH_PAPERS_INFO, transport)

\* run: the event sent when the driver or the discovery failed.
send_failed(k, transport) ==
    /\ k \in DOMAIN task
    /\ task[k].pc = "send_failed"
    /\ JobSend(k, [task[k] EXCEPT !.pc = "cleanup"],
               FAILED_FETCH_A_GOOGLE_SCHOLAR_URL, transport)

\* What driver.quit() does.
QuitOutcomes == {"ok", "raises"}

\* A teardown that also marks the job as failed.
cleanup_mark_error(t, quit) ==
    [t EXCEPT !.driver = IF @ = "open" /\ quit = "ok" THEN "closed" ELSE @,
              !.search_data.status = ERROR]

\* _cleanup: quit the driver if there is one (lines 811-814).  A quit that
\* raises is logged only (816-817): self.driver stays set and the session is
\* not released.  page logs the failed quit.
cleanup(t, quit) ==
    IF t.driver # "open" THEN t
    ELSE IF quit = "ok" THEN [t EXCEPT !.driver = "closed"]
    ELSE [t EXCEPT !.page = Append(@, "quit_raises")]

\* run's finally clause, run_sync's return and the future's set_result: the
\* future is FINISHED and its registered done-callbacks start in this thread.
run_finally(k, quit) ==
    /\ k \in DOMAIN task
    /\ task[k].pc = "cleanup"
    /\ JobStep(k, [cleanup(task[k], quit) EXCEPT
                     !.future = "FINISHED",
                     !.pc = IF task[k].done_callbacks > 0 THEN "callback" ELSE "returned"])

\* --------------------------------------------------- GoogleScholarCrawler
\* A registry without the duplicate check of scholar_info.
AlreadyRunningNever(task_id, running) == FALSE

\* if task_id in self.running_tasks
AlreadyRunning(task_id, running) == task_id \in running

\* What a call hands back: its value (or the exception it raises) and the
\* source line of the return statement (of the raising statement).
Return(op, task_id, value, line) ==
    [op |-> op, task_id |-> task_id, value |-> value, line |-> line]

\* scholar_info up to executor.submit.  A task already running returns its id;
\* a shut-down executor raises RuntimeError out of the with block; otherwise
\* the new task is queued and the caller still holds the lock.  (Who called
\* is for the caller to record: start_requests is not mentioned here.)
scholar_info(url, client_id, search_id) ==
    LET task_id == TaskId(client_id, search_id) IN
    /\ ret = NoReturn
    /\ lock = "free"
    /\ IF AlreadyRunning(task_id, running_tasks)
       THEN /\ ret' = Return("scholar_info", task_id, task_id, 862)
            /\ UNCHANGED <<task, queue, lock, caller, futures_submitted>>
       ELSE IF executor_shutdown
       THEN /\ ret' = Return("scholar_info", task_id, "RuntimeError", 873)
            /\ UNCHANGED <<task, queue, lock, caller, futures_submitted>>
       ELSE /\ task' = Put(task, task_id, NewSearchTask(url, client_id, search_id))
            /\ queue' = Append(queue, task_id)
            /\ futures_submitted' =
                 Put(futures_submitted, task_id,
                     IF task_id \in DOMAIN futures_submitted
                     THEN futures_submitted[task_id] + 1 ELSE 1)
            /\ lock' = "scholar_info"
            /\ caller' = [op |-> "scholar_info", task_id |-> task_id,
                          pc |-> "add_done_callback"]
            /\ UNCHANGED ret
    /\ UNCHANGED <<call, clients, running_tasks, completed_tasks, completed_tasks_order,
                   executor_shutdown, shutdown_pc, clock, completion_log>>

\* Future.add_done_callback: TRUE when the callback is stored, FALSE when the
\* future is already done and the callback runs at once in the calling thread.
add_done_callback(future) == future \notin {"CANCELLED", "FINISHED"}

\* scholar_info from add_done_callback to its return.  A callback that runs
\* in this thread asks for _task_lock, which this thread holds: it blocks.
\* The return of a call made by the message handler gives the event loop
\* back to its coroutines.
scholar_info_register ==
    /\ ret = NoReturn
    /\ caller.op = "scholar_info"
    /\ caller.pc = "add_done_callback"
    /\ LET task_id == caller.task_id IN
         IF add_done_callback(task[task_id].future)
         THEN /\ task' = [task EXCEPT ![task_id].done_callbacks = @ + 1]
              /\ running_tasks' = running_tasks \cup {task_id}
              /\ ret' = Return("scholar_info", task_id, task_id, 885)
              /\ lock' = "free"
              /\ caller' = Idle
              /\ connection' = [c \in DOMAIN connection |->
                                   IF connection[c] = "handling" THEN "handled"
                                   ELSE connection[c]]
         ELSE /\ caller' = [caller EXCEPT !.pc = "blocked"]
              /\ UNCHANGED <<task, running_tasks, ret, lock, connection>>
    /\ UNCHANGED <<start_requests, call, clients, completed_tasks, completed_tasks_order, queue, executor_shutdown,
                   shutdown_pc, clock, futures_submitted, completion_log>>

\* while len(order) > max_completed_tasks: pop(0) and delete its record
RECURSIVE Evict(_, _)
Evict(order, completed) ==
    IF Len(order) > max_completed_tasks
    THEN Evict(Tail(order),
               IF Head(order) \in DOMAIN completed
               THEN Del(completed, Head(order)) ELSE completed)
    ELSE [order |-> order, completed |-> completed]

\* An order list that gets the identity at every completion.
AppendOrderAlways(order, new_task_id) == Append(order, new_task_id)

\* if new_task_id not in self.completed_tasks_order: append
AppendOrder(order, new_task_id) ==
    IF InList(new_task_id, order) THEN order ELSE Append(order, new_task_id)

\* _manage_completed_tasks
manage_completed_tasks(order, completed, new_task_id) ==
    Evict(AppendOrder(order, new_task_id), completed)

\* A completion callback that pops the running entry and stores no record.
RecordNothing(completed, task_id, result, now) == completed

\* self.completed_tasks[task_id] = {"result": result, "completed_time": now}
\* result = future.result() is what run_sync returned: the task's search_data,
\* a URLItem.  (run_sync catches every Exception, so the except branch that
\* stores a plain dict is never taken.)
Record(completed, task_id, result, now) ==
    Put(completed, task_id,
        [result |-> result, result_type |-> "URLItem", completed_time |-> now])

\* _on_task_complete, run by the pool thread that finished the future.
on_task_complete(k) ==
    /\ k \in DOMAIN task
    /\ task[k].pc = "callback"
    /\ ret = NoReturn
    /\ lock = "free"
    /\ task' = [task EXCEPT ![k].pc = "returned"]
    /\ IF k \in running_tasks
       THEN LET m == manage_completed_tasks(
                        completed_tasks_order,
                        Record(completed_tasks, k, task[k].search_data, clock + 1),
                        k)
            IN /\ running_tasks' = running_tasks \ {k}
               /\ completed_tasks' = m.completed
               /\ completed_tasks_order' = m.order
               /\ clock' = clock + 1
               /\ completion_log' = Append(completion_log, k)
       ELSE UNCHANGED <<running_tasks, completed_tasks, completed_tasks_order, clock,
                        completion_log>>
    /\ UNCHANGED <<connection, start_requests, call, clients, queue, executor_shutdown, lock, caller, shutdown_pc, ret,
                   futures_submitted>>

\* Future.cancel: a PENDING future becomes CANCELLED and its done-callbacks run
\* in the calling thread; a CANCELLED one answers True; RUNNING or FINISHED False.
future_cancel(t) ==
    CASE t.future = "PENDING" ->
           [cancelled |-> TRUE, future |-> "CANCELLED", invoked |-> t.done_callbacks]
      [] t.future = "CANCELLED" ->
           [cancelled |-> TRUE, future |-> "CANCELLED", invoked |-> 0]
      [] OTHER ->
           [cancelled |-> FALSE, future |-> t.future, invoked |-> 0]

\* if cancelled:
Cancelled(c) == c.cancelled

\* cancel_task.  The callback that future.cancel() runs is _on_task_complete,
\* which asks for _task_lock while cancel_task holds it: the caller blocks
\* inside future.cancel() and never reaches the lines after it.
cancel_task(client_id, search_id) ==
    LET task_id == TaskId(client_id, search_id) IN
    /\ ret = NoReturn
    /\ lock = "free"
    /\ IF task_id \in running_tasks
       THEN LET c == future_cancel(task[task_id]) IN
            IF c.invoked > 0
            THEN /\ task' = [task EXCEPT ![task_id].future = c.future]
                 /\ lock' = "cancel_task"
                 /\ caller' = [op |-> "cancel_task", task_id |-> task_id,
                               pc |-> "blocked"]
                 /\ UNCHANGED <<running_tasks, ret>>
            ELSE IF Cancelled(c)
            THEN /\ \E quit \in QuitOutcomes :
                      task' = [task EXCEPT ![task_id] =
                                 cleanup([@ EXCEPT !.future = c.future], quit)]
                 /\ running_tasks' = running_tasks \ {task_id}
                 /\ ret' = Return("cancel_task", task_id, TRUE, 1017)
                 /\ UNCHANGED <<lock, caller>>
            ELSE /\ ret' = Return("cancel_task", task_id, FALSE, 1020)
                 /\ UNCHANGED <<task, running_tasks, lock, caller>>
       ELSE /\ ret' = Return("cancel_task", task_id, FALSE, 1022)
            /\ UNCHANGED <<task, running_tasks, lock, caller>>
    /\ UNCHANGED <<connection, start_requests, call, clients, completed_tasks, completed_tasks_order, queue, executor_shutdown,
                   shutdown_pc, clock, futures_submitted, completion_log>>

\* {**x, "task_status": task_status}: the ** operator needs a mapping.  A dict
\* is one; a URLItem (a pydantic model) is not, and unpacking it raises TypeError.
DictUnpack(x, x_type, task_status) ==
    IF x_type = "dict"
    THEN [raised |-> "", task_status |-> task_status, status |-> x.status]
    ELSE [raised |-> "TypeError", task_status |-> "", status |-> ""]

\* get_search_status: running set first, then the history cache, else not_found.
\* lookup records the branch taken, read the object the branch unpacks: the
\* running job's search_data, a URLItem (line 75), or the stored result.
get_search_status_value(task_id, running, completed) ==
    IF task_id \in running
    THEN [lookup |-> "running", read |-> task[task_id].search_data]
         @@ DictUnpack(task[task_id].search_data, "URLItem", "running")
    ELSE IF task_id \in DOMAIN completed
    THEN [lookup |-> "completed", read |-> completed[task_id].result]
         @@ DictUnpack(completed[task_id].result, completed[task_id].result_type,
                       "completed")
    ELSE [lookup |-> "not_found", raised |-> "", task_status |-> "not_found",
          status |-> "not_found"]

\* the line that returns or raises, for each lookup branch
StatusLine(lookup) ==
    IF lookup = "running" THEN 950 ELSE IF lookup = "completed" THEN 959 ELSE 966

get_search_status(client_id, search_id) ==
    LET task_id == TaskId(client_id, search_id) IN
    /\ ret = NoReturn
    /\ lock = "free"
    /\ LET v == get_search_status_value(task_id, running_tasks, completed_tasks)
       IN ret' = Return("get_search_status", task_id, v, StatusLine(v.lookup))
    /\ UNCHANGED <<connection, start_requests, call, clients, running_tasks, completed_tasks, completed_tasks_order, task, queue,
                   executor_shutdown, lock, caller, shutdown_pc, clock,
                   futures_submitted, completion_log>>

\* list[-limit:]
LastN(list, limit) ==
    SubSeq(list, IF limit >= Len(list) THEN 1 ELSE Len(list) - limit + 1, Len(list))

\* recent_task_ids = order[-limit:] if limit > 0 else order; recent_task_ids.reverse()
\* With limit <= 0 recent_task_ids is the order list itself, reversed in place.
recent_task_ids(order, limit) ==
    IF limit > 0
    THEN [ids |-> Reverse(LastN(order, limit)), order |-> order]
    ELSE [ids |-> Reverse(order), order |-> Reverse(order)]

\* the loop of get_recent_completed_tasks: the records of the ids still cached
RECURSIVE recent_tasks(_, _)
recent_tasks(ids, completed) ==
    IF ids = << >> THEN << >>
    ELSE LET rest == recent_tasks(Tail(ids), completed) IN
         IF Head(ids) \in DOMAIN completed
         THEN <<[task_id |-> Head(ids)] @@ completed[Head(ids)]>> \o rest
         ELSE rest

get_recent_completed_tasks(limit) ==
    /\ ret = NoReturn
    /\ lock = "free"
    /\ LET r == recent_task_ids(completed_tasks_order, limit) IN
         /\ completed_tasks_order' = r.order
         /\ ret' = Return("get_recent_completed_tasks", ToString(limit),
                          recent_tasks(r.ids, completed_tasks), 1045)
    /\ UNCHANGED <<connection, start_requests, call, clients, running_tasks, completed_tasks, task, queue, executor_shutdown,
                   lock, caller, shutdown_pc, clock, futures_submitted, completion_log>>

get_all_tasks_status ==
    /\ ret = NoReturn
    /\ lock = "free"
    /\ ret' = Return("get_all_tasks_status", "",
                     [ running_tasks |-> Cardinality(running_tasks),
                       completed_tasks |-> Cardinality(DOMAIN completed_tasks),
                       max_workers |-> max_workers,
                       max_completed_tasks |-> max_completed_tasks,
                       running_task_ids |-> running_tasks,
                       completed_task_ids |-> completed_tasks_order,
                       completed_task_ids_count |-> Len(completed_tasks_order) ],
                     980)
    /\ UNCHANGED <<connection, start_requests, call, clients, running_tasks, completed_tasks, completed_tasks_order, task, queue,
                   executor_shutdown, lock, caller, shutdown_pc, clock,
                   futures_submitted, completion_log>>

\* shutdown, the with block: _cleanup of every running task, whatever its
\* worker does.  quits maps each running task to what its driver.quit() does.
shutdown_cleanup(quits) ==
    /\ ret = NoReturn
    /\ lock = "free"
    /\ shutdown_pc = "idle"
    /\ task' = [k \in DOMAIN task |->
                  IF k \in running_tasks THEN cleanup(task[k], quits[k]) ELSE task[k]]
    /\ shutdown_pc' = "executor"
    /\ UNCHANGED <<connection, start_requests, call, clients, running_tasks, completed_tasks, completed_tasks_order, queue,
                   executor_shutdown, lock, caller, ret, clock, futures_submitted, completion_log>>

\* shutdown, self.executor.shutdown(wait=wait): no new work is accepted; with
\* wait the caller then joins the pool threads.
shutdown_executor(wait) ==
    /\ ret = NoReturn
    /\ shutdown_pc = "executor"
    /\ executor_shutdown' = TRUE
    /\ IF wait
       THEN shutdown_pc' = "join" /\ UNCHANGED ret
       ELSE shutdown_pc' = "done" /\ ret' = Return("shutdown", "", "None", 1067)
    /\ UNCHANGED <<connection, start_requests, call, clients, running_tasks, completed_tasks, completed_tasks_order, task, queue,
                   lock, caller, clock, futures_submitted, completion_log>>

\* shutdown(wait=True) returns once every pool thread has ended.
shutdown_join ==
    /\ ret = NoReturn
    /\ shutdown_pc = "join"
    /\ queue = << >>
    /\ Busy = {}
    /\ shutdown_pc' = "done"
    /\ ret' = Return("shutdown", "", "None", 1067)
    /\ UNCHANGED <<connection, start_requests, call, clients, running_tasks, completed_tasks, completed_tasks_order, task, queue,
                   executor_shutdown, lock, caller, clock, futures_submitted, completion_log>>

\* The caller takes the returned value (or the exception).
api_return ==
    /\ ret # NoReturn
    /\ ret' = NoReturn
    /\ UNCHANGED <<connection, start_requests, call, clients, running_tasks, completed_tasks, completed_tasks_order, task, queue,
                   executor_shutdown, lock, caller, shutdown_pc, clock,
                   futures_submitted, completion_log>>

\* ------------------------------------------------------- ws/event_handler
\* GoogleSearchRequest.clientId: Optional[str] = None.
NoClientId == [is_none |-> TRUE, value |-> "None"]
ClientId(value) == [is_none |-> FALSE, value |-> value]

\* client_id = request.clientId (line 33): the id the job is submitted under
\* is the one named in the message, not the one of the connection.
job_client_id(client_id, request) == request.clientId

\* What the handler raises before a job is made: with clientId None the key
\* is "None_<searchId>" and URLItem(**self.search_data) in
\* GoogleScholarSearchTask.__init__ raises a ValidationError (client_id: str,
\* scholar_crawler.py line 75); a shut-down executor raises RuntimeError at
\* submit (line 873).  A key that is running returns before both (line 862).
start_fetch_raises(client_id, request) ==
    LET job_client == job_client_id(client_id, request)
    IN IF AlreadyRunning(TaskId(job_client.value, request.searchId), running_tasks)
       THEN "none"
       ELSE IF job_client.is_none THEN "ValidationError"
       ELSE IF executor_shutdown THEN "RuntimeError"
       ELSE "none"

\* handle_start_fetch_a_google_scholar_url for a message that came on the
\* connection client_id.  The ValidationError comes out of scholar_info, which
\* releases the lock and makes no job.
handle_start_fetch_a_google_scholar_url(client_id, request) ==
    LET job_client == job_client_id(client_id, request)
        task_id == TaskId(job_client.value, request.searchId)
    IN IF start_fetch_raises(client_id, request) = "ValidationError"
       THEN /\ ret = NoReturn
            /\ lock = "free"
            /\ ret' = Return("scholar_info", task_id, "ValidationError", 75)
            /\ UNCHANGED <<start_requests, call, clients, running_tasks, completed_tasks,
                           completed_tasks_order, task, queue, executor_shutdown, lock,
                           caller, shutdown_pc, clock, futures_submitted, completion_log>>
       ELSE /\ scholar_info(request.url, job_client.value, request.searchId)
            /\ start_requests' = IF futures_submitted' # futures_submitted
                                 THEN Put(start_requests, task_id, client_id)
                                 ELSE start_requests

\* A message: BaseEvent(event, data).  NoData is a start message whose data
\* GoogleSearchRequest(**message.data) does not accept (line 30).
START_FETCH_A_GOOGLE_SCHOLAR_URL == "start_fetch_a_google_scholar_url"
STOP_FETCH_A_GOOGLE_SCHOLAR_URL == "stop_fetch_a_google_scholar_url"
NoData == [url |-> "", searchId |-> "", clientId |-> NoClientId, accepted |-> FALSE]
Data(request) == [url |-> request.url, searchId |-> request.searchId,
                  clientId |-> request.clientId, accepted |-> TRUE]
BaseEvent(event, data) == [event |-> event, data |-> data]

\* process_client_message answers the message with an error message: the
\* event is unknown (line 20), or the handler raises (lines 22-25).
Replies(client_id, message) ==
    \/ message.event # START_FETCH_A_GOOGLE_SCHOLAR_URL
    \/ ~message.data.accepted
    \/ start_fetch_raises(client_id, message.data) # "none"

\* The write of that error message raises (ConnectionClient.send, line 130).
ReplyRaises(client_id, message, transport) ==
    /\ Replies(client_id, message)
    /\ ConnectionManager_send(clients, client_id, transport).line = 138

\* await socket_manager.send(ERROR, ..., client_id) of process_client_message.
\* A write that raises is awaited first, and the client is marked inactive
\* when the except clause runs (reply_raises); every other call ends at once.
reply(client_id, transport) ==
    LET r == ConnectionManager_send(clients, client_id, transport) IN
    clients' = IF r.line = 138 THEN clients ELSE r.clients

\* process_client_message for a message that came on the connection
\* client_id: a start message goes to the handler; an unknown event (line 20)
\* and every exception of the handler (lines 22-25) are answered with an
\* error message to the connection; the exception goes no further.
process_client_message(client_id, message, transport) ==
    IF message.event # START_FETCH_A_GOOGLE_SCHOLAR_URL
    THEN /\ ret = NoReturn
         /\ reply(client_id, transport)
         /\ UNCHANGED <<start_requests, call, running_tasks, completed_tasks,
                        completed_tasks_order, task, queue, executor_shutdown, lock,
                        caller, shutdown_pc, ret, clock, futures_submitted, completion_log>>
    ELSE IF ~message.data.accepted
    THEN /\ ret = NoReturn
         /\ reply(client_id, transport)
         /\ UNCHANGED <<start_requests, call, running_tasks, completed_tasks,
                        completed_tasks_order, task, queue, executor_shutdown, lock,
                        caller, shutdown_pc, ret, clock, futures_submitted, completion_log>>
    ELSE IF start_fetch_raises(client_id, message.data) # "none"
    THEN /\ ret = NoReturn
         /\ lock = "free"
         /\ reply(client_id, transport)
         /\ UNCHANGED <<start_requests, call, running_tasks, completed_tasks,
                        completed_tasks_order, task, queue, executor_shutdown, lock,
                        caller, shutdown_pc, ret, clock, futures_submitted, completion_log>>
    ELSE handle_start_fetch_a_google_scholar_url(client_id, message.data)

\* The except clause of ConnectionClient.send after the write of the error
\* message raised (lines 133-138): the client, when it is still registered,
\* is marked inactive, and the turn of the loop ends.
reply_raises(client_id) ==
    /\ ret = NoReturn
    /\ EventLoopFree
    /\ client_id \in DOMAIN connection
    /\ connection[client_id] = "replying"
    /\ clients' = IF client_id \in DOMAIN clients
                  THEN Put(clients, client_id, FALSE) ELSE clients
    /\ connection' = [connection EXCEPT ![client_id] = "handled"]
    /\ UNCHANGED <<start_requests, call, running_tasks, completed_tasks,
                   completed_tasks_order, task, queue, executor_shutdown, lock, caller,
                   shutdown_pc, ret, clock, futures_submitted, completion_log>>

\* ------------------------------------- ConnectionManager.start_listening
\* while client_id in self.clients and client.is_active
Listening(client_id) == client_id \in DOMAIN clients /\ clients[client_id]

\* start_listening from its call, and from the end of each turn of the loop,
\* to the await of receive_text: a client that is not registered or not
\* active ends it (lines 438-441, 445).
start_listening(client_id) ==
    /\ ret = NoReturn
    /\ EventLoopFree
    /\ client_id \in DOMAIN connection => connection[client_id] \in {"connected", "handled"}
    /\ connection' = Put(connection, client_id,
                         IF Listening(client_id) THEN "receiving" ELSE "stopped")
    /\ UNCHANGED <<start_requests, call, clients, running_tasks, completed_tasks,
                   completed_tasks_order, task, queue, executor_shutdown, lock, caller,
                   shutdown_pc, ret, clock, futures_submitted, completion_log>>

\* What receive_text and the parsing give: the peer closed the websocket
\* (WebSocketDisconnect), another exception of the receive or a text that
\* is JSON but no BaseEvent (Exception), a text that is not JSON
\* (JSONDecodeError), or a message.
Raised(exception) ==
    [raises |-> exception, message |-> [event |-> "", data |-> NoData]]
Text(message) == [raises |-> "none", message |-> message]

\* One turn of the loop from the return of receive_text (line 448) to the
\* end of the turn ("handled"), or into the call of scholar_info that the
\* handler makes when that call is still under way ("handling"), or into the
\* write of an error message that raises ("replying").  A
\* WebSocketDisconnect marks the client inactive and ends the loop (lines
\* 467-473), another exception disconnects the client and ends it (474-480),
\* a text that is not JSON is dropped (463-466), a message is handed to
\* process_client_message (460).
start_listening_receive(client_id, received, transport) ==
    /\ client_id \in DOMAIN connection
    /\ connection[client_id] = "receiving"
    /\ EventLoopFree
    /\ IF received.raises = "WebSocketDisconnect"
       THEN /\ ret = NoReturn
            /\ clients' = IF client_id \in DOMAIN clients
                          THEN Put(clients, client_id, FALSE) ELSE clients
            /\ connection' = [connection EXCEPT ![client_id] = "stopped"]
            /\ UNCHANGED <<start_requests, call, running_tasks, completed_tasks,
                           completed_tasks_order, task, queue, executor_shutdown, lock,
                           caller, shutdown_pc, ret, clock, futures_submitted,
                           completion_log>>
       ELSE IF received.raises = "Exception"
       THEN /\ ret = NoReturn
            /\ clients' = IF client_id \in DOMAIN clients
                          THEN Del(clients, client_id) ELSE clients
            /\ task' = Unregistered(task, {client_id})
            /\ connection' = [connection EXCEPT ![client_id] = "stopped"]
            /\ UNCHANGED <<start_requests, call, running_tasks, completed_tasks,
                           completed_tasks_order, queue, executor_shutdown, lock,
                           caller, shutdown_pc, ret, clock, futures_submitted,
                           completion_log>>
       ELSE IF received.raises = "JSONDecodeError"
       THEN /\ ret = NoReturn
            /\ connection' = [connection EXCEPT ![client_id] = "handled"]
            /\ UNCHANGED <<start_requests, call, clients, running_tasks, completed_tasks,
                           completed_tasks_order, task, queue, executor_shutdown, lock,
                           caller, shutdown_pc, ret, clock, futures_submitted,
                           completion_log>>
       ELSE /\ process_client_message(client_id, received.message, transport)
            /\ connection' = [connection EXCEPT ![client_id] =
                                IF caller' # caller THEN "handling"
                                ELSE IF ReplyRaises(client_id, received.message, transport)
                                THEN "replying"
                                ELSE "handled"]

\* ------------------------------------------------ main.websocket_endpoint
\* The finally clause after start_listening returned: a client that is still
\* registered is disconnected (main.py lines 92-96), and the coroutine ends.
websocket_endpoint_finally(client_id) ==
    /\ ret = NoReturn
    /\ EventLoopFree
    /\ client_id \in DOMAIN connection
    /\ connection[client_id] = "stopped"
    /\ clients' = IF client_id \in DOMAIN clients THEN Del(clients, client_id) ELSE clients
    /\ task' = Unregistered(task, {client_id})
    /\ connection' = Del(connection, client_id)
    /\ UNCHANGED <<start_requests, call, running_tasks, completed_tasks,
                   completed_tasks_order, queue, executor_shutdown, lock, caller,
                   shutdown_pc, ret, clock, futures_submitted, completion_log>>

\* ------------------------------------------- parsing of the item page fields
\* A text is a sequence of one-character strings.
DigitChars == <<"0", "1", "2", "3", "4", "5", "6", "7", "8", "9">>
\* \d
IsDigit(c) == InList(c, DigitChars)
\* \w: letters, digits and the underscore
IsWordChar(c) == IsDigit(c) \/ c \in {"a", "b", "c", "d", "_"}
\* int(digits)
RECURSIVE int(_)
int(digits) ==
    IF digits = << >> THEN 0
    ELSE 10 * int(SubSeq(digits, 1, Len(digits) - 1))
         + ((CHOOSE n \in 1..10 : DigitChars[n] = digits[Len(digits)]) - 1)

\* str(n), n >= 0
RECURSIVE str(_)
str(n) == IF n < 10 THEN <<DigitChars[n + 1]>>
          ELSE str(n \div 10) \o <<DigitChars[(n % 10) + 1]>>

\* f"{n:02d}"
Format02d(n) == IF n < 10 THEN <<"0">> \o str(n) ELSE str(n)

\* text[i:i+n] is n digits
DigitsAt(text, i, n) ==
    /\ i + n - 1 <= Len(text)
    /\ \A j \in i..(i + n - 1) : IsDigit(text[j])

\* date_patterns: three groups of digits, with the lengths each may have and
\* the separator between them.
date_patterns ==
    << [first |-> {4}, second |-> {1, 2}, third |-> {1, 2}, sep |-> "/"],
       [first |-> {4}, second |-> {1, 2}, third |-> {1, 2}, sep |-> "-"],
       [first |-> {1, 2}, second |-> {1, 2}, third |-> {4}, sep |-> "/"],
       [first |-> {1, 2}, second |-> {1, 2}, third |-> {4}, sep |-> "-"] >>

\* The ways pattern matches in text: the start and the lengths of the groups.
PatternMatches(pattern, text) ==
    {m \in (1..Len(text)) \X pattern.first \X pattern.second \X pattern.third :
       LET i == m[1]
           j == i + m[2] + 1
           k == j + m[3] + 1
       IN /\ DigitsAt(text, i, m[2])
          /\ j - 1 <= Len(text) /\ text[j - 1] = pattern.sep
          /\ DigitsAt(text, j, m[3])
          /\ k - 1 <= Len(text) /\ text[k - 1] = pattern.sep
          /\ DigitsAt(text, k, m[4])}

\* re.search tries the leftmost start first and, the quantifiers being
\* greedy, the longest first, second and third group in this order.
Preferred(m, n) ==
    \/ m[1] < n[1]
    \/ m[1] = n[1] /\ m[2] > n[2]
    \/ m[1] = n[1] /\ m[2] = n[2] /\ m[3] > n[3]
    \/ m[1] = n[1] /\ m[2] = n[2] /\ m[3] = n[3] /\ m[4] >= n[4]

\* re.search(pattern, date_text).groups(), for a text the pattern matches
re_search_groups(pattern, text) ==
    LET M == PatternMatches(pattern, text)
        m == CHOOSE x \in M : \A y \in M : Preferred(x, y)
        j == m[1] + m[2] + 1
        k == j + m[3] + 1
    IN << SubSeq(text, m[1], m[1] + m[2] - 1),
          SubSeq(text, j, j + m[3] - 1),
          SubSeq(text, k, k + m[4] - 1) >>

\* year, month, day of the groups: the year is the group of four digits
DateOfGroups(groups) ==
    IF Len(groups[1]) = 4
    THEN [year |-> int(groups[1]), month |-> int(groups[2]), day |-> int(groups[3])]
    ELSE [year |-> int(groups[3]), month |-> int(groups[1]), day |-> int(groups[2])]

\* if 1900 <= year <= 2030 and 1 <= month <= 12 and 1 <= day <= 31
DateIsReasonable(d) ==
    /\ 1900 <= d.year /\ d.year <= 2030
    /\ 1 <= d.month /\ d.month <= 12
    /\ 1 <= d.day /\ d.day <= 31

\* The starts of the matches of \b(19|20)\d{2}\b in text.
YearMatches(text) ==
    {i \in 1..Len(text) :
       /\ DigitsAt(text, i, 4)
       /\ <<text[i], text[i + 1]>> \in {<<"1", "9">>, <<"2", "0">>}
       /\ (i = 1 \/ ~IsWordChar(text[i - 1]))
       /\ (i + 3 = Len(text) \/ ~IsWordChar(text[i + 4]))}

\* _parse_date_info after the loop: the first match of the year pattern, if
\* it is in range.
year_only(text) ==
    IF YearMatches(text) = {} THEN [year |-> 0, date |-> << >>]
    ELSE LET i == CHOOSE x \in YearMatches(text) : \A y \in YearMatches(text) : x <= y
             year == int(SubSeq(text, i, i + 3))
         IN IF 1900 <= year /\ year <= 2030
            THEN [year |-> year, date |-> str(year) \o <<"-", "0", "1", "-", "0", "1">>]
            ELSE [year |-> 0, date |-> << >>]

\* the loop of _parse_date_info over the patterns not yet tried
RECURSIVE parse_date_patterns(_, _)
parse_date_patterns(patterns, date_text) ==
    IF patterns = << >> THEN year_only(date_text)
    ELSE IF PatternMatches(Head(patterns), date_text) # {}
            /\ DateIsReasonable(DateOfGroups(re_search_groups(Head(patterns), date_text)))
    THEN LET d == DateOfGroups(re_search_groups(Head(patterns), date_text))
         IN [year |-> d.year,
             date |-> str(d.year) \o <<"-">> \o Format02d(d.month)
                      \o <<"-">> \o Format02d(d.day)]
    ELSE parse_date_patterns(Tail(patterns), date_text)

\* _parse_date_info(date_text): (year, date)
parse_date_info(date_text) == parse_date_patterns(date_patterns, date_text)

\* _extract_paper_details, the year and the date of the record of a page whose
\* "publication date" field reads field_value (empty: the field is skipped).
paper_info_date(field_value) ==
    LET parsed == IF field_value = << >> THEN [year |-> 0, date |-> << >>]
                  ELSE parse_date_info(field_value)
        year == IF parsed.year > 0 THEN parsed.year ELSE 0
        date == IF parsed.year > 0 THEN parsed.date ELSE << >>
    IN [year |-> year,
        date |-> IF date # << >> THEN date
                 ELSE IF year > 0 THEN str(year) \o <<"-", "0", "1", "-", "0", "1">>
                 ELSE <<"1", "9", "0", "0", "-", "0", "1", "-", "0", "1">>]

\* A parsing function fn is called with arg ...
Called(fn, arg) == [fn |-> fn, pc |-> "called", arg |-> arg]

\* ... and returns: what the parser made of the field and what the record gets.
extract_date ==
    /\ call.fn = "_parse_date_info"
    /\ call.pc = "called"
    /\ call' = [fn |-> call.fn, pc |-> "returned", arg |-> call.arg,
                result |-> parse_date_info(call.arg),
                paper_info |-> paper_info_date(call.arg)]
    /\ UNCHANGED <<connection, start_requests, running_tasks, completed_tasks, completed_tasks_order, task, queue,
                   executor_shutdown, lock, caller, shutdown_pc, ret, clock,
                   futures_submitted, completion_log, clients>>

\* The first position of the white space that ends right before position j.
SpaceBefore(s, j) ==
    CHOOSE p \in 1..j :
       /\ \A q \in p..(j - 1) : IsSpace(s[q])
       /\ (p = 1 \/ ~IsSpace(s[p - 1]))

\* re.sub(r'\s*-\s*.*$', '', authors_text): the text up to the white space
\* before its first hyphen.
sub_after_hyphen(s) ==
    LET hyphens == {i \in 1..Len(s) : s[i] = "-"}
    IN IF hyphens = {} THEN s
       ELSE SubSeq(s, 1, SpaceBefore(s, CHOOSE i \in hyphens : \A j \in hyphens : i <= j) - 1)

\* re.sub(r'\s*\d{4}.*$', '', authors_text): the text up to the white space
\* before its first four digits in a row.
sub_after_year(s) ==
    LET years == {i \in 1..Len(s) : DigitsAt(s, i, 4)}
    IN IF years = {} THEN s
       ELSE SubSeq(s, 1, SpaceBefore(s, CHOOSE i \in years : \A j \in years : i <= j) - 1)

\* authors_text.split(',')
RECURSIVE split(_)
split(s) ==
    LET commas == {i \in 1..Len(s) : s[i] = ","}
    IN IF commas = {} THEN <<s>>
       ELSE LET i == CHOOSE c \in commas : \A j \in commas : c <= j
            IN <<SubSeq(s, 1, i - 1)>> \o split(SubSeq(s, i + 1, Len(s)))

\* The two substitutions and the strip that clean one author.
clean_author(author) ==
    LET kept == strip(SelectSeq(author,
                    LAMBDA c : IsWordChar(c) \/ IsSpace(c) \/ c \in {"-", ".", "'"}))
    IN strip(SelectSeq(kept, LAMBDA c : ~IsDigit(c)))

\* author.isdigit()
isdigit(s) == s # << >> /\ \A i \in 1..Len(s) : IsDigit(s[i])

\* The authors that are kept, in how many _parse_authors returns.
max_authors == 10

\* _parse_authors
parse_authors(authors_text) ==
    LET text == sub_after_year(sub_after_hyphen(authors_text))
        authors == IF InList(",", text)
                   THEN [i \in 1..Len(split(text)) |-> strip(split(text)[i])]
                   ELSE <<strip(text)>>
        cleaned == [i \in 1..Len(authors) |-> clean_author(authors[i])]
        cleaned_authors == SelectSeq(cleaned, LAMBDA a : a # << >> /\ Len(a) > 1 /\ ~isdigit(a))
    IN SubSeq(cleaned_authors, 1,
              IF Len(cleaned_authors) < max_authors THEN Len(cleaned_authors) ELSE max_authors)

\* paper_info["authors"] after an "authors" field: set when the list is not
\* empty, [] otherwise.
paper_info_authors(field_value) ==
    IF parse_authors(field_value) # << >> THEN parse_authors(field_value) ELSE << >>

\* The "authors" field is parsed.
extract_authors ==
    /\ call.fn = "_parse_authors"
    /\ call.pc = "called"
    /\ call' = [fn |-> call.fn, pc |-> "returned", arg |-> call.arg,
                result |-> parse_authors(call.arg),
                paper_info |-> [authors |-> paper_info_authors(call.arg)]]
    /\ UNCHANGED <<connection, start_requests, running_tasks, completed_tasks, completed_tasks_order, task, queue,
                   executor_shutdown, lock, caller, shutdown_pc, ret, clock,
                   futures_submitted, completion_log, clients>>

\* A "description" field without a .gsh_csp element inside (find_element
\* raises NoSuchElementException), and one with such an element.
NoSuchElement == [found |-> FALSE, text |-> << >>]
Element(text) == [found |-> TRUE, text |-> text]

\* paper_info["description"]: None, or a text.
NoDescription == [is_none |-> TRUE, text |-> << >>]
Description(text) == [is_none |-> FALSE, text |-> text]

\* paper_info["description"] after a "description" field whose value element
\* has the text value_text and whose .gsh_csp element is gsh_csp.
paper_info_description(value_text, gsh_csp) ==
    LET field_value == strip(value_text)
    IN IF field_value = << >> THEN NoDescription
       ELSE IF gsh_csp.found
            THEN LET description == strip(gsh_csp.text)
                 IN IF description # << >> /\ Len(description) > 20
                    THEN Description(description) ELSE NoDescription
            ELSE IF Len(field_value) > 20 THEN Description(field_value) ELSE NoDescription

\* The "description" field is read.
extract_description ==
    /\ call.fn = "description"
    /\ call.pc = "called"
    /\ call' = [fn |-> call.fn, pc |-> "returned", arg |-> call.arg,
                result |-> paper_info_description(call.arg.field_value, call.arg.gsh_csp),
                paper_info |-> [description |->
                    paper_info_description(call.arg.field_value, call.arg.gsh_csp)]]
    /\ UNCHANGED <<connection, start_requests, running_tasks, completed_tasks, completed_tasks_order, task, queue,
                   executor_shutdown, lock, caller, shutdown_pc, ret, clock,
                   futures_submitted, completion_log, clients>>

\* ------------------------------------------------------------ specification
\* A call of scholar_info that makes a job object counts against MaxJobs.
MakesJob(task_id) == ~AlreadyRunning(task_id, running_tasks) /\ ~executor_shutdown

submit(url, client_id, search_id) ==
    /\ MakesJob(TaskId(client_id, search_id)) => JobsCreated < MaxJobs
    /\ scholar_info(url, client_id, search_id)
    /\ UNCHANGED <<connection, start_requests>>

Limits == {-1, 0, 1, 100}
\* What the websocket does with a message: it is written, or the write raises.
Transport == {"sent", "raises"}
\* What an item page does: it shows one of the pages of ItemPage, or raises.
ItemOutcomes == {"record", "blank_meta", "none", "raise"}

\* Spec: callers and pool threads in every interleaving, over two identities.
\* The pages name an author and list no item, or one item that yields a
\* record; every driver.quit() succeeds.
Next ==
    \/ \E url \in Urls, c \in ClientIds, s \in SearchIds : submit(url, c, s)
    \/ scholar_info_register
    \/ \E c \in ClientIds, s \in SearchIds : cancel_task(c, s)
    \/ \E c \in ClientIds, s \in SearchIds : get_search_status(c, s)
    \/ \E limit \in Limits : get_recent_completed_tasks(limit)
    \/ get_all_tasks_status
    \/ shutdown_cleanup([k \in running_tasks |-> "ok"])
    \/ \E wait \in BOOLEAN : shutdown_executor(wait)
    \/ shutdown_join
    \/ api_return
    \/ worker_pickup
    \/ \E k \in DOMAIN task : initialize_driver(k, TRUE)
    \/ \E k \in DOMAIN task : collect_scholar_info(k)
    \/ \E k \in DOMAIN task, tr \in Transport : extract_author_info(k, "author", tr)
    \/ \E k \in DOMAIN task, hrefs \in {<< >>, <<1>>}, tr \in Transport :
          collect_paper_urls(k, hrefs, tr)
    \/ \E k \in DOMAIN task : search_papers_details(k)
    \/ \E k \in DOMAIN task : search_item(k)
    \/ \E k \in DOMAIN task, tr \in Transport : extract_paper_details(k, "record", tr)
    \/ \E k \in DOMAIN task : search_finish(k)
    \/ \E k \in DOMAIN task : search_finish_progress(k)
    \/ \E k \in DOMAIN task, tr \in Transport : send_completed(k, tr)
    \/ \E k \in DOMAIN task, tr \in Transport : send_failed(k, tr)
    \/ \E k \in DOMAIN task : run_finally(k, "ok")
    \/ \E k \in DOMAIN task : on_task_complete(k)

Spec == Init /\ [][Next]_vars

\* SpecHistory: many identities, submitted in the order of their numbers and
\* each run on a page with one item; one identity of HistoryResubmitIds may be
\* submitted a second time once its first run is over.  A job is submitted
\* when the running set is empty, so the jobs complete one after the other.
HistoryId(n) == TaskId("a", ToString(n))
HistoryResubmitIds == {1, 2}
HistoryLimits == {2, 100}
Resubmits == JobsCreated - Cardinality(DOMAIN futures_submitted)

history_submit(n) ==
    /\ running_tasks = {}
    /\ IF HistoryId(n) \in DOMAIN futures_submitted
       THEN n \in HistoryResubmitIds /\ Resubmits = 0
       ELSE \A m \in 1..(n - 1) : HistoryId(m) \in DOMAIN futures_submitted
    /\ scholar_info("u", "a", ToString(n))
    /\ UNCHANGED <<connection, start_requests>>

NextHistory ==
    \/ \E n \in 1..NumHistoryIds : history_submit(n)
    \/ scholar_info_register
    \/ \E limit \in HistoryLimits : get_recent_completed_tasks(limit)
    \/ get_all_tasks_status
    \/ api_return
    \/ worker_pickup
    \/ \E k \in DOMAIN task : initialize_driver(k, TRUE)
    \/ \E k \in DOMAIN task : collect_scholar_info(k)
    \/ \E k \in DOMAIN task, tr \in Transport : extract_author_info(k, "author", tr)
    \/ \E k \in DOMAIN task, tr \in Transport : collect_paper_urls(k, <<1>>, tr)
    \/ \E k \in DOMAIN task : search_papers_details(k)
    \/ \E k \in DOMAIN task : search_item(k)
    \/ \E k \in DOMAIN task, tr \in Transport : extract_paper_details(k, "record", tr)
    \/ \E k \in DOMAIN task : search_finish(k)
    \/ \E k \in DOMAIN task : search_finish_progress(k)
    \/ \E k \in DOMAIN task, tr \in Transport : send_completed(k, tr)
    \/ \E k \in DOMAIN task : run_finally(k, "ok")
    \/ \E k \in DOMAIN task : on_task_complete(k)

SpecHistory == Init /\ [][NextHistory]_vars

\* SpecJob: one job, on every page behaviour: the driver opens or not, the
\* author page raises, names an author or does not, lists 0..MaxPapers item
\* URLs, and each item page shows a title or none (ItemOutcomes) or raises;
\* a driver.quit() succeeds or raises; with status lookups, reads of the
\* history, cancel_task and shutdown at any moment of the run.
JobClient == "a"
JobSearch == "1"

\* The links of the list pages tried: n different links in ascending or in
\* descending order, the first link once more at the end, an element without
\* a link in front.
Ascending(n) == [i \in 1..n |-> i]
PageLinks ==
    UNION { { Ascending(n), Reverse(Ascending(n)) } : n \in 0..MaxPapers }
    \cup { Ascending(n) \o <<1>> : n \in 1..(MaxPapers - 1) }
    \cup { <<NoHref>> \o Ascending(n) : n \in 0..(MaxPapers - 1) }

job_submit ==
    /\ JobsCreated = 0
    /\ scholar_info("u", JobClient, JobSearch)
    /\ UNCHANGED <<connection, start_requests>>

NextJob ==
    \/ job_submit
    \/ scholar_info_register
    \/ cancel_task(JobClient, JobSearch)
    \/ get_search_status(JobClient, JobSearch)
    \/ get_recent_completed_tasks(1)
    \/ \E quits \in [running_tasks -> QuitOutcomes] : shutdown_cleanup(quits)
    \/ \E wait \in BOOLEAN : shutdown_executor(wait)
    \/ shutdown_join
    \/ api_return
    \/ worker_pickup
    \/ \E k \in DOMAIN task, ok \in BOOLEAN : initialize_driver(k, ok)
    \/ \E k \in DOMAIN task : collect_scholar_info(k)
    \/ \E k \in DOMAIN task, o \in {"author", "no_author", "get_raises"},
          tr \in Transport : extract_author_info(k, o, tr)
    \/ \E k \in DOMAIN task, hrefs \in PageLinks, tr \in Transport :
          collect_paper_urls(k, hrefs, tr)
    \/ \E k \in DOMAIN task : search_papers_details(k)
    \/ \E k \in DOMAIN task : search_item(k)
    \/ \E k \in DOMAIN task, o \in ItemOutcomes, tr \in Transport :
          extract_paper_details(k, o, tr)
    \/ \E k \in DOMAIN task : search_finish(k)
    \/ \E k \in DOMAIN task : search_finish_progress(k)
    \/ \E k \in DOMAIN task, tr \in Transport : send_completed(k, tr)
    \/ \E k \in DOMAIN task, tr \in Transport : send_failed(k, tr)
    \/ \E k \in DOMAIN task : \E quit \in QuitOutcomes : run_finally(k, quit)
    \/ \E k \in DOMAIN task : on_task_complete(k)

SpecJob == Init /\ [][NextJob]_vars

\* SpecSessions: two jobs of one client, submitted at any moment and run by
\* the pool on a page with one item, whose driver opens or not and whose
\* driver.quit() succeeds or raises.
NextSessions ==
    \/ \E s \in SearchIds : submit("u", JobClient, s)
    \/ scholar_info_register
    \/ api_return
    \/ worker_pickup
    \/ \E k \in DOMAIN task, ok \in BOOLEAN : initialize_driver(k, ok)
    \/ \E k \in DOMAIN task : collect_scholar_info(k)
    \/ \E k \in DOMAIN task, tr \in Transport : extract_author_info(k, "author", tr)
    \/ \E k \in DOMAIN task, tr \in Transport : collect_paper_urls(k, <<1>>, tr)
    \/ \E k \in DOMAIN task : search_papers_details(k)
    \/ \E k \in DOMAIN task : search_item(k)
    \/ \E k \in DOMAIN task, tr \in Transport : extract_paper_details(k, "record", tr)
    \/ \E k \in DOMAIN task : search_finish(k)
    \/ \E k \in DOMAIN task : search_finish_progress(k)
    \/ \E k \in DOMAIN task, tr \in Transport : send_completed(k, tr)
    \/ \E k \in DOMAIN task, tr \in Transport : send_failed(k, tr)
    \/ \E k \in DOMAIN task : \E quit \in QuitOutcomes : run_finally(k, quit)
    \/ \E k \in DOMAIN task : on_task_complete(k)

SpecSessions == Init /\ [][NextSessions]_vars

\* SpecPublish: two jobs of one client, run one after the other on every page
\* behaviour (an item page yields a record or raises; every driver.quit()
\* succeeds).  The first is the reference run: its client is connected and
\* every message to it is written.  During the second the client connects,
\* is listened to, closes, disconnects and its websocket fails at any moment.
ReferenceId == TaskId(JobClient, "1")
ReferenceDone == ReferenceId \in DOMAIN task /\ task[ReferenceId].pc = "returned"
TransportOf(k) == IF k = ReferenceId THEN {"sent"} ELSE Transport

publish_submit(search_id) ==
    /\ running_tasks = {}
    /\ TaskId(JobClient, search_id) \notin DOMAIN futures_submitted
    /\ IF TaskId(JobClient, search_id) = ReferenceId
       THEN /\ JobClient \in DOMAIN clients /\ clients[JobClient]
            /\ connection[JobClient] = "connected"
       ELSE ReferenceDone
    /\ scholar_info("u", JobClient, search_id)
    /\ UNCHANGED <<connection, start_requests>>

publish_connect ==
    /\ ReferenceId \in DOMAIN task => ReferenceDone
    /\ JobClient \in DOMAIN connection => connection[JobClient] \in {"connected", "stopped"}
    /\ connect(JobClient)

publish_greeting ==
    /\ ReferenceId \in DOMAIN task => ReferenceDone
    /\ \E tr \in Transport : connect_greeting(JobClient, tr)

publish_listen ==
    /\ ReferenceDone
    /\ JobClient \in DOMAIN connection
    /\ start_listening(JobClient)

PublishReceptions ==
    { Raised(e) : e \in {"WebSocketDisconnect", "Exception", "JSONDecodeError"} }
    \cup { Text(BaseEvent(STOP_FETCH_A_GOOGLE_SCHOLAR_URL, NoData)) }

publish_receive ==
    \E received \in PublishReceptions, tr \in Transport :
       start_listening_receive(JobClient, received, tr)

publish_disconnect ==
    /\ ReferenceDone
    /\ disconnect(JobClient)

publish_disconnect_all ==
    /\ ReferenceDone
    /\ disconnect(None)

NextPublish ==
    \/ \E s \in SearchIds : publish_submit(s)
    \/ scholar_info_register
    \/ api_return
    \/ publish_connect
    \/ publish_greeting
    \/ publish_listen
    \/ publish_receive
    \/ websocket_endpoint_finally(JobClient)
    \/ publish_disconnect
    \/ publish_disconnect_all
    \/ reply_raises(JobClient)
    \/ \E k \in DOMAIN task : ConnectionClient_send_raises(k)
    \/ worker_pickup
    \/ \E k \in DOMAIN task, ok \in BOOLEAN : initialize_driver(k, ok)
    \/ \E k \in DOMAIN task : collect_scholar_info(k)
    \/ \E k \in DOMAIN task, o \in {"author", "no_author", "get_raises"} :
          \E tr \in TransportOf(k) : extract_author_info(k, o, tr)
    \/ \E k \in DOMAIN task, total \in 0..MaxPublishPapers :
          \E tr \in TransportOf(k) : collect_paper_urls(k, Ascending(total), tr)
    \/ \E k \in DOMAIN task : search_papers_details(k)
    \/ \E k \in DOMAIN task : search_item(k)
    \/ \E k \in DOMAIN task, o \in {"record", "raise"} :
          \E tr \in TransportOf(k) :
          extract_paper_details(k, o, tr)
    \/ \E k \in DOMAIN task : search_finish(k)
    \/ \E k \in DOMAIN task : search_finish_progress(k)
    \/ \E k \in DOMAIN task :
          \E tr \in TransportOf(k) : send_completed(k, tr)
    \/ \E k \in DOMAIN task :
          \E tr \in TransportOf(k) : send_failed(k, tr)
    \/ \E k \in DOMAIN task : run_finally(k, "ok")
    \/ \E k \in DOMAIN task : on_task_complete(k)

SpecPublish == Init /\ [][NextPublish]_vars

\* SpecDate: _parse_date_info and the date of the record on "publication
\* date" fields made of up to two dates or years, after a word or not.
DateYears == {1899, 1900, 2023, 2030, 2031}
DateMonths == {0, 1, 12, 13}
DateDays == {1, 31, 32}
DatePieces ==
    { str(y) : y \in DateYears }
    \cup { str(y) \o <<s>> \o str(m) \o <<s>> \o str(d) :
             y \in {1900, 2023, 2031}, m \in DateMonths, d \in DateDays, s \in {"/", "-"} }
    \cup { str(m) \o <<s>> \o str(d) \o <<s>> \o str(y) :
             y \in {2023}, m \in DateMonths, d \in DateDays, s \in {"/", "-"} }
DateTexts ==
    { p \o a : p \in {<< >>, <<"a">>, <<"a", " ">>}, a \in DatePieces \cup {<< >>} }
    \cup { a \o <<",", " ">> \o b : a \in { str(y) : y \in DateYears }, b \in DatePieces }

InitDate ==
    /\ running_tasks = {}
    /\ completed_tasks = EmptyDict
    /\ completed_tasks_order = << >>
    /\ task = EmptyDict
    /\ queue = << >>
    /\ executor_shutdown = FALSE
    /\ lock = "free"
    /\ caller = Idle
    /\ shutdown_pc = "idle"
    /\ ret = NoReturn
    /\ clock = 0
    /\ futures_submitted = EmptyDict
    /\ completion_log = << >>
    /\ clients = EmptyDict
    /\ start_requests = EmptyDict
    /\ connection = EmptyDict
    /\ call \in { Called("_parse_date_info", text) : text \in DateTexts }

NextDate == extract_date

SpecDate == InitDate /\ [][NextDate]_vars

\* SpecAuthors: _parse_authors on "authors" fields of up to three pieces
\* between commas, and on lists of up to MaxAuthorNames names.
Chars(string) ==
    CASE string = "" -> << >>
      [] string = "ab" -> <<"a", "b">>
      [] string = "cd" -> <<"c", "d">>
      [] string = "a" -> <<"a">>
      [] string = "1" -> <<"1">>
      [] string = "a1b" -> <<"a", "1", "b">>
      [] string = "a.b" -> <<"a", ".", "b">>
      [] string = "a@" -> <<"a", "@">>
      [] string = " ab " -> <<" ", "a", "b", " ">>
      [] string = "a b" -> <<"a", " ", "b">>
      [] string = "ab 2023 cd" -> <<"a", "b", " ", "2", "0", "2", "3", " ", "c", "d">>
      [] string = "ab - cd" -> <<"a", "b", " ", "-", " ", "c", "d">>
      [] string = "123" -> <<"1", "2", "3">>
AuthorPieces ==
    { Chars(string) : string \in {"", "ab", "cd", "a", "1", "a1b", "a.b", "a@", " ab ",
                                  "a b", "ab 2023 cd", "ab - cd", "123"} }
RECURSIVE join(_)
join(pieces) ==
    IF Len(pieces) = 0 THEN << >>
    ELSE IF Len(pieces) = 1 THEN pieces[1]
    ELSE pieces[1] \o <<",", " ">> \o join(Tail(pieces))
\* The n-th name: two letters.
Name(n) == << <<"a", "b", "c", "d">>[((n - 1) \div 4) + 1], <<"a", "b", "c", "d">>[((n - 1) % 4) + 1] >>
AuthorTexts ==
    { join(pieces) : pieces \in UNION { [1..n -> AuthorPieces] : n \in 1..3 } }
    \cup { join([i \in 1..n |-> Name(i)]) : n \in 4..MaxAuthorNames }
    \cup { join([i \in 1..n |-> IF i = 2 THEN <<"1">> ELSE Name(i)]) : n \in 4..MaxAuthorNames }

InitAuthors ==
    /\ running_tasks = {}
    /\ completed_tasks = EmptyDict
    /\ completed_tasks_order = << >>
    /\ task = EmptyDict
    /\ queue = << >>
    /\ executor_shutdown = FALSE
    /\ lock = "free"
    /\ caller = Idle
    /\ shutdown_pc = "idle"
    /\ ret = NoReturn
    /\ clock = 0
    /\ futures_submitted = EmptyDict
    /\ completion_log = << >>
    /\ clients = EmptyDict
    /\ start_requests = EmptyDict
    /\ connection = EmptyDict
    /\ call \in { Called("_parse_authors", text) : text \in AuthorTexts }

NextAuthors == extract_authors

SpecAuthors == InitAuthors /\ [][NextAuthors]_vars

\* SpecDescription: the "description" field with texts of the lengths around
\* 20 and 500, bare or with white space around, with and without a .gsh_csp
\* element.
DescriptionLengths == {1, 20, 21, 500, 501, MaxDescription}
DescriptionTexts ==
    { before \o [i \in 1..n |-> "a"] \o after :
        n \in DescriptionLengths, before \in {<< >>, <<" ">>}, after \in {<< >>, <<" ">>} }

InitDescription ==
    /\ running_tasks = {}
    /\ completed_tasks = EmptyDict
    /\ completed_tasks_order = << >>
    /\ task = EmptyDict
    /\ queue = << >>
    /\ executor_shutdown = FALSE
    /\ lock = "free"
    /\ caller = Idle
    /\ shutdown_pc = "idle"
    /\ ret = NoReturn
    /\ clock = 0
    /\ futures_submitted = EmptyDict
    /\ completion_log = << >>
    /\ clients = EmptyDict
    /\ start_requests = EmptyDict
    /\ connection = EmptyDict
    /\ call \in { Called("description", [field_value |-> value, gsh_csp |-> inner]) :
                    value \in DescriptionTexts \cup {<<" ">>},
                    inner \in { Element(text) : text \in DescriptionTexts \cup {<< >>} }
                                \cup {NoSuchElement} }

NextDescription == extract_description

SpecDescription == InitDescription /\ [][NextDescription]_vars

\* SpecLive: one job that nobody cancels, on every page behaviour, under fair
\* scheduling: the caller of scholar_info goes on to add_done_callback and to
\* its return, an idle pool thread takes queued work, and the thread that runs
\* the job goes on from each step to the next (every page operation returns,
\* with whichever result) and runs the completion callback; a thread that
\* waits for _task_lock gets it, however often other callers take it (strong
\* fairness).
JobRuns ==
    \/ \E k \in DOMAIN task, ok \in BOOLEAN : initialize_driver(k, ok)
    \/ \E k \in DOMAIN task : collect_scholar_info(k)
    \/ \E k \in DOMAIN task, o \in {"author", "no_author", "get_raises"},
          tr \in Transport : extract_author_info(k, o, tr)
    \/ \E k \in DOMAIN task, hrefs \in PageLinks, tr \in Transport :
          collect_paper_urls(k, hrefs, tr)
    \/ \E k \in DOMAIN task : search_papers_details(k)
    \/ \E k \in DOMAIN task : search_item(k)
    \/ \E k \in DOMAIN task, o \in ItemOutcomes, tr \in Transport :
          extract_paper_details(k, o, tr)
    \/ \E k \in DOMAIN task : search_finish(k)
    \/ \E k \in DOMAIN task : search_finish_progress(k)
    \/ \E k \in DOMAIN task, tr \in Transport : send_completed(k, tr)
    \/ \E k \in DOMAIN task, tr \in Transport : send_failed(k, tr)
    \/ \E k \in DOMAIN task : \E quit \in QuitOutcomes : run_finally(k, quit)
    \/ \E k \in DOMAIN task : on_task_complete(k)

NextLive ==
    \/ job_submit
    \/ scholar_info_register
    \/ get_search_status(JobClient, JobSearch)
    \/ api_return
    \/ worker_pickup
    \/ JobRuns

SpecLive ==
    /\ Init
    /\ [][NextLive]_vars
    /\ WF_vars(scholar_info_register)
    /\ WF_vars(api_return)
    /\ SF_vars(worker_pickup)
    /\ SF_vars(JobRuns)

\* SpecIdentity: submissions, lookups and cancellations by three pairs
\* (client_id, search_id), two of which differ only in the place of an
\* underscore; the driver opens or not, the page names an author or not and
\* lists no item or one, and a driver.quit() succeeds or raises.
IdentityPairs == { <<"a", "1">>, <<"a", "1_1">>, <<"a_1", "1">> }

NextIdentity ==
    \/ \E p \in IdentityPairs : submit("u", p[1], p[2])
    \/ scholar_info_register
    \/ \E p \in IdentityPairs : cancel_task(p[1], p[2])
    \/ \E p \in IdentityPairs : get_search_status(p[1], p[2])
    \/ api_return
    \/ worker_pickup
    \/ \E k \in DOMAIN task, ok \in BOOLEAN : initialize_driver(k, ok)
    \/ \E k \in DOMAIN task : collect_scholar_info(k)
    \/ \E k \in DOMAIN task, o \in {"author", "no_author"}, tr \in Transport :
          extract_author_info(k, o, tr)
    \/ \E k \in DOMAIN task, hrefs \in {<< >>, <<1>>}, tr \in Transport :
          collect_paper_urls(k, hrefs, tr)
    \/ \E k \in DOMAIN task : search_papers_details(k)
    \/ \E k \in DOMAIN task : search_item(k)
    \/ \E k \in DOMAIN task, tr \in Transport : extract_paper_details(k, "record", tr)
    \/ \E k \in DOMAIN task : search_finish(k)
    \/ \E k \in DOMAIN task : search_finish_progress(k)
    \/ \E k \in DOMAIN task, tr \in Transport : send_completed(k, tr)
    \/ \E k \in DOMAIN task, tr \in Transport : send_failed(k, tr)
    \/ \E k \in DOMAIN task : \E quit \in QuitOutcomes : run_finally(k, quit)
    \/ \E k \in DOMAIN task : on_task_complete(k)

SpecIdentity == Init /\ [][NextIdentity]_vars

\* SpecSubmitter: two websockets served by websocket_endpoint: each connects,
\* is greeted and listened to until it stops; the peers send start messages
\* naming their own client id, the other connection's, or none, messages of
\* another event, and close; one job is made, on a page with one item.
Connections == {"a", "b"}
StartRequests ==
    { [url |-> "u", searchId |-> "1", clientId |-> c] :
        c \in { ClientId(value) : value \in Connections } \cup {NoClientId} }
Messages ==
    { BaseEvent(START_FETCH_A_GOOGLE_SCHOLAR_URL, Data(request)) : request \in StartRequests }
    \cup { BaseEvent(START_FETCH_A_GOOGLE_SCHOLAR_URL, NoData),
           BaseEvent(STOP_FETCH_A_GOOGLE_SCHOLAR_URL, NoData) }
Receptions ==
    { Text(message) : message \in Messages }
    \cup { Raised(e) : e \in {"WebSocketDisconnect", "Exception", "JSONDecodeError"} }

\* A start message that makes a job; one job is made.
MessageMakesJob(client_id, message) ==
    /\ message.event = START_FETCH_A_GOOGLE_SCHOLAR_URL
    /\ message.data.accepted
    /\ ~job_client_id(client_id, message.data).is_none
    /\ MakesJob(TaskId(job_client_id(client_id, message.data).value, message.data.searchId))

endpoint_connect(client_id) ==
    /\ client_id \notin DOMAIN connection
    /\ connect(client_id)

endpoint_listen(client_id) ==
    /\ client_id \in DOMAIN connection
    /\ start_listening(client_id)

endpoint_receive(client_id, received, transport) ==
    /\ (received.raises = "none" /\ MessageMakesJob(client_id, received.message))
          => JobsCreated = 0
    /\ start_listening_receive(client_id, received, transport)

NextSubmitter ==
    \/ \E c \in Connections : endpoint_connect(c)
    \/ \E c \in Connections, tr \in Transport : connect_greeting(c, tr)
    \/ \E c \in Connections : endpoint_listen(c)
    \/ \E c \in Connections, received \in Receptions, tr \in Transport :
          endpoint_receive(c, received, tr)
    \/ \E c \in Connections : websocket_endpoint_finally(c)
    \/ \E c \in Connections : reply_raises(c)
    \/ \E k \in DOMAIN task : ConnectionClient_send_raises(k)
    \/ scholar_info_register
    \/ api_return
    \/ worker_pickup
    \/ \E k \in DOMAIN task : initialize_driver(k, TRUE)
    \/ \E k \in DOMAIN task : collect_scholar_info(k)
    \/ \E k \in DOMAIN task, tr \in Transport : extract_author_info(k, "author", tr)
    \/ \E k \in DOMAIN task, tr \in Transport : collect_paper_urls(k, <<1>>, tr)
    \/ \E k \in DOMAIN task : search_papers_details(k)
    \/ \E k \in DOMAIN task : search_item(k)
    \/ \E k \in DOMAIN task, tr \in Transport : extract_paper_details(k, "record", tr)
    \/ \E k \in DOMAIN task : search_finish(k)
    \/ \E k \in DOMAIN task : search_finish_progress(k)
    \/ \E k \in DOMAIN task, tr \in Transport : send_completed(k, tr)
    \/ \E k \in DOMAIN task : \E quit \in QuitOutcomes : run_finally(k, quit)
    \/ \E k \in DOMAIN task : on_task_complete(k)

SpecSubmitter == Init /\ [][NextSubmitter]_vars

\* ------------------------------------------------------------------ claims
\* An identity is visible when a status lookup finds it.
Visible(k) == k \in running_tasks \/ k \in DOMAIN completed_tasks

\* C1. Idempotent submission.  While an identity is in the running set, no step
\* raises the number of futures ever submitted for it, and a scholar_info call
\* for it returns the same id (line 862) leaving every job object and the work
\* queue untouched.
IdempotentSubmission ==
    [][\A c \in ClientIds, s \in SearchIds :
         LET id == TaskId(c, s) IN
         id \in running_tasks =>
           /\ id \in DOMAIN futures_submitted'
           /\ futures_submitted'[id] = futures_submitted[id]
           /\ \A url \in Urls :
                scholar_info(url, c, s) =>
                  /\ ret' = Return("scholar_info", id, id, 862)
                  /\ task' = task
                  /\ queue' = queue
                  /\ running_tasks' = running_tasks
                  /\ lock' = "free"]_vars

\* A second scholar_info call for a running identity has just returned.
IdempotentSubmissionWitness ==
    /\ ret.op = "scholar_info"
    /\ ret.line = 862
    /\ ret.value = ret.task_id
    /\ ret.task_id \in running_tasks
    /\ futures_submitted[ret.task_id] = 1

\* C2. Cancellation of a pending job.  A cancel_task call for a running-set
\* identity whose status is still PENDING returns True and removes the identity
\* from the running set, and a job whose future is cancelled never gets a
\* history record.
CancelPendingSucceeds ==
    [][/\ \A c \in ClientIds, s \in SearchIds :
            LET id == TaskId(c, s) IN
            ( /\ id \in running_tasks
              /\ task[id].search_data.status = PENDING
              /\ cancel_task(c, s) ) =>
                /\ ret' = Return("cancel_task", id, TRUE, 1017)
                /\ id \notin running_tasks'
                /\ lock' = "free"
       /\ \A k \in DOMAIN task :
            (task[k].future = "CANCELLED" /\ task'[k].future = "CANCELLED") =>
               /\ k \notin running_tasks'
               /\ (k \in DOMAIN completed_tasks' =>
                     /\ k \in DOMAIN completed_tasks
                     /\ completed_tasks'[k] = completed_tasks[k])]_vars

\* C3. Submission never blocks.  Whatever the pool threads did since
\* executor.submit, the step of scholar_info that follows it returns the job
\* id and releases the registry lock.
SubmitNeverBlocks ==
    [][scholar_info_register =>
         /\ ret' = Return("scholar_info", caller.task_id, caller.task_id, 885)
         /\ lock' = "free"
         /\ caller' = Idle]_vars

\* C4. Cancel after start is refused.  cancel_task for an identity that is not
\* in the running set, or whose future a worker has taken, returns False and
\* leaves the running set, the history cache and the job as they were; and
\* the job a worker has taken is, when it ends, moved into the history cache
\* with a terminal status (COMPLETED or ERROR).
CancelAfterStartRefused ==
    [][/\ \A c \in ClientIds, s \in SearchIds :
            LET id == TaskId(c, s) IN
            ( /\ cancel_task(c, s)
              /\ (id \in running_tasks => task[id].future \in {"RUNNING", "FINISHED"}) ) =>
                /\ ret'.op = "cancel_task"
                /\ ret'.value = FALSE
                /\ running_tasks' = running_tasks
                /\ completed_tasks' = completed_tasks
                /\ completed_tasks_order' = completed_tasks_order
                /\ task' = task
       /\ \A k \in running_tasks :
            on_task_complete(k) =>
               /\ k \notin running_tasks'
               /\ k \in DOMAIN completed_tasks'
               /\ completed_tasks'[k].result.status \in {COMPLETED, ERROR}]_vars

\* C6. No visibility gap.  An identity that a lookup finds stays findable
\* through every step, except a step that takes it out of the completion order
\* (eviction) or a cancel_task that returns True; scholar_info returning an id
\* leaves it findable; and get_search_status on a findable identity never takes
\* the not_found branch.
NoVisibilityGap ==
    [][\A k \in DOMAIN task' :
         /\ (Visible(k) /\ ~Visible(k)') =>
               \/ (InList(k, completed_tasks_order)
                     /\ ~InList(k, completed_tasks_order'))
               \/ ret' = Return("cancel_task", k, TRUE, 1017)
         /\ (ret' = Return("scholar_info", k, k, 862)
               \/ ret' = Return("scholar_info", k, k, 885)) => Visible(k)'
         /\ (ret'.op = "get_search_status" /\ ret'.task_id = k /\ Visible(k)) =>
               ret'.value.lookup # "not_found"]_vars

\* A lookup of a job that has completed took the history branch.
NoVisibilityGapWitness ==
    /\ ret.op = "get_search_status"
    /\ ret.value.lookup = "completed"
    /\ ret.task_id \notin running_tasks
    /\ ret.task_id \in DOMAIN completed_tasks

\* C7. Status lookup order.  get_search_status returns the running job's
\* snapshot (task_status "running") when the identity is in the running set,
\* else the history record (task_status "completed") when it is in the history
\* cache, else the not_found result.
StatusLookupOrder ==
    ret.op = "get_search_status" =>
       LET id == ret.task_id
           v == ret.value
       IN IF id \in running_tasks
          THEN /\ v.raised = ""
               /\ v.task_status = "running"
               /\ v.status = task[id].search_data.status
          ELSE IF id \in DOMAIN completed_tasks
          THEN /\ v.raised = ""
               /\ v.task_status = "completed"
               /\ v.status = completed_tasks[id].result.status
          ELSE /\ v.raised = ""
               /\ v.task_status = "not_found"

\* The identities that have completed, and for each the position of its latest
\* completion in the log.
Completed == {completion_log[i] : i \in 1..Len(completion_log)}
LastIndex(k) ==
    CHOOSE i \in 1..Len(completion_log) :
       /\ completion_log[i] = k
       /\ \A j \in (i + 1)..Len(completion_log) : completion_log[j] # k
\* The n identities whose latest completion is the most recent.
MostRecentlyCompleted(n) ==
    {k \in Completed :
       Cardinality({j \in Completed : LastIndex(j) > LastIndex(k)}) < n}
TaskIds(records) == {records[i].task_id : i \in 1..Len(records)}

\* C8. History cache bound.  The history cache never holds more than 20
\* records, and once more than 20 distinct identities have completed,
\* get_recent_completed_tasks(100) returns exactly 20 entries: the 20
\* identities whose completion is the most recent.
HistoryCacheBound ==
    /\ Cardinality(DOMAIN completed_tasks) <= max_completed_tasks
    /\ Len(completed_tasks_order) <= max_completed_tasks
    /\ ( /\ ret.op = "get_recent_completed_tasks"
         /\ ret.task_id = ToString(100)
         /\ Cardinality(Completed) > max_completed_tasks ) =>
           /\ Len(ret.value) = max_completed_tasks
           /\ TaskIds(ret.value) = MostRecentlyCompleted(max_completed_tasks)

\* C9. Eviction is FIFO by completion.  A record that a step removes from the
\* history cache is one whose completion time is the oldest of the records
\* the cache held.
EvictionFifo ==
    [][\A k \in DOMAIN completed_tasks :
         k \notin DOMAIN completed_tasks' =>
           \A j \in DOMAIN completed_tasks :
              completed_tasks[k].completed_time <= completed_tasks[j].completed_time]_vars

\* C10. get_recent_completed_tasks(limit), limit >= 1, returns min(limit, cache
\* size) records, the most recently completed ones, most recent first: the
\* completion times strictly decrease, the first is the job that completed
\* last, and no record left out is newer than one returned.
RecentCompletedOrder ==
    \A limit \in HistoryLimits :
       (ret.op = "get_recent_completed_tasks" /\ ret.task_id = ToString(limit)) =>
          LET r == ret.value
              size == Cardinality(DOMAIN completed_tasks)
          IN /\ Len(r) = IF limit < size THEN limit ELSE size
             /\ \A i \in 1..Len(r) : completed_tasks[r[i].task_id].completed_time
                                       = r[i].completed_time
             /\ \A i, j \in 1..Len(r) :
                  i < j => r[i].completed_time > r[j].completed_time
             /\ (Len(r) > 0 => r[1].task_id = completion_log[Len(completion_log)])
             /\ \A k \in DOMAIN completed_tasks :
                  k \notin TaskIds(r) =>
                    \A i \in 1..Len(r) :
                       completed_tasks[k].completed_time < r[i].completed_time

\* The statuses no transition leaves.
Terminal == {COMPLETED, ERROR}
\* The run of job k is over: run_sync has returned.
RunEnded(k) == task[k].pc \in {"callback", "returned"}
LastPublished(k) == task[k].published[Len(task[k].published)]

\* C11. Definitive final status.  Every record in the history cache has
\* status COMPLETED or ERROR, and a job whose run is over has such a status
\* itself and in the last snapshot it published.
DefinitiveFinalStatus ==
    /\ \A k \in DOMAIN completed_tasks :
          completed_tasks[k].result.status \in Terminal
    /\ \A k \in DOMAIN task :
          RunEnded(k) =>
             /\ task[k].search_data.status \in Terminal
             /\ task[k].published # << >>
             /\ LastPublished(k).data.status \in Terminal

\* Discovery is over and failed: the driver was opened, and no author name was
\* resolved or the page listed no item URL.
DiscoveryFailed(k) ==
    /\ task[k].pc \in {"send_failed", "cleanup", "callback", "returned"}
    /\ task[k].driver # "none"
    /\ \/ task[k].search_data.author_name = ""
       \/ task[k].search_data.total_paper_count = 0

\* C12. Discovery failure is a terminal error.  A job whose discovery failed
\* has status ERROR and a non-empty error_message, has processed no item (no
\* item page visited, items empty), and was handed to the pool once only.
DiscoveryFailureIsError ==
    \A k \in DOMAIN task :
       DiscoveryFailed(k) =>
          /\ task[k].search_data.status = ERROR
          /\ task[k].search_data.error_message # ""
          /\ task[k].search_data.papers = << >>
          /\ task[k].outcomes = << >>
          /\ futures_submitted[k] = 1

\* C13. Page Session released on every exit path.  A job whose run is over
\* (and so every job that is moved into the history cache) holds no open
\* driver, whichever way the run ended; and the completion callback only ever
\* runs for a job whose driver is not open.
SessionReleased ==
    /\ \A k \in DOMAIN task : RunEnded(k) => task[k].driver # "open"
    /\ \A k \in DOMAIN completed_tasks :
          (k \in DOMAIN task /\ k \notin running_tasks /\ task[k].future = "FINISHED")
             => task[k].driver # "open"

\* The events that report a job terminal.
TerminalEvents == {FETCHED_COMPLETED_WITH_PAPERS_INFO, FAILED_FETCH_A_GOOGLE_SCHOLAR_URL}

\* C14. Release precedes terminal report.  A step that publishes a terminal
\* event (completed or failed) for a job is taken when that job's driver is
\* not open: the teardown has happened before.
ReleasePrecedesReport ==
    [][\A k \in (DOMAIN task) \cap (DOMAIN task') :
         ( /\ Len(task'[k].published) = Len(task[k].published) + 1
           /\ task'[k].published[Len(task'[k].published)].event \in TerminalEvents )
            => (task[k].driver # "open" /\ task'[k].driver # "open")]_vars

\* C15. Progress monotonicity.  Through every step the progress of a job
\* object does not decrease; every snapshot it has published carries a
\* progress no greater than its present one, the published snapshots are in
\* non-decreasing order of progress, and what a status lookup reads is the
\* job's present progress.  Every sequence of observations of one job is
\* therefore non-decreasing, also in the runs that end in ERROR.
ProgressMonotone ==
    [][\A k \in DOMAIN task' :
         LET t == task'[k]
             n == Len(t.published)
         IN /\ (k \in DOMAIN task /\ futures_submitted'[k] = futures_submitted[k]) =>
                  t.search_data.progress >= task[k].search_data.progress
            /\ \A i \in 1..n : t.published[i].data.progress <= t.search_data.progress
            /\ \A i, j \in 1..n :
                  i < j => t.published[i].data.progress <= t.published[j].data.progress
            /\ ( /\ ret'.op = "get_search_status"
                 /\ ret'.task_id = k
                 /\ ret'.value.lookup # "not_found"
                 /\ futures_submitted'[k] = 1 ) =>
                   ret'.value.read.progress = t.search_data.progress]_vars

\* A status lookup reads a running job in the middle of its search, after
\* several snapshots were published.
ProgressMonotoneWitness ==
    /\ ret.op = "get_search_status"
    /\ ret.value.lookup = "running"
    /\ ret.value.read.progress > 2500
    /\ ret.value.read.progress < 10000
    /\ Len(task[ret.task_id].published) >= 3

\* progress equals 100 if and only if status is COMPLETED
HundredIffCompleted(snapshot) ==
    (snapshot.progress = 10000) <=> (snapshot.status = COMPLETED)

\* C16. In every observable snapshot of a job, progress is 100 if and only if
\* the status is COMPLETED: in each snapshot the job published, in each
\* record of the history cache and in each record get_recent_completed_tasks
\* hands back; and a status lookup of a job that is found hands back no
\* snapshot at all, whenever it is made: it raises.
ProgressHundredIffCompleted ==
    /\ \A k \in DOMAIN task :
          \A i \in 1..Len(task[k].published) :
             HundredIffCompleted(task[k].published[i].data)
    /\ \A k \in DOMAIN completed_tasks :
          HundredIffCompleted(completed_tasks[k].result)
    /\ ret.op = "get_recent_completed_tasks" =>
          \A i \in 1..Len(ret.value) : HundredIffCompleted(ret.value[i].result)
    /\ (ret.op = "get_search_status" /\ ret.value.lookup # "not_found") =>
          ret.value.raised = "TypeError"

\* A status lookup made between the two assignments that end the search
\* (lines 429 and 430), after the job published snapshots of its search, has
\* raised.
ProgressHundredIffCompletedWitness ==
    \E k \in DOMAIN task :
       /\ task[k].pc = "search_finish_progress"
       /\ task[k].search_data.status = COMPLETED
       /\ task[k].search_data.progress < 10000
       /\ ret.op = "get_search_status"
       /\ ret.task_id = k
       /\ ret.value.raised = "TypeError"
       /\ \E i \in 1..Len(task[k].published) :
             /\ task[k].published[i].data.status = SEARCHING_PAPERS
             /\ task[k].published[i].data.progress > 2500
             /\ task[k].published[i].data.progress < 10000

\* C17. Terminal states are absorbing.  Once the status of a job object is
\* COMPLETED or ERROR, no step (of run, run_sync, the completion callback,
\* cancel_task or shutdown) changes it, and the record stored for the job in
\* the history cache carries that status.
TerminalAbsorbing ==
    [][\A k \in DOMAIN task :
         ( /\ task[k].search_data.status \in Terminal
           /\ k \in DOMAIN task'
           /\ futures_submitted'[k] = futures_submitted[k] ) =>
             /\ task'[k].search_data.status = task[k].search_data.status
             /\ (k \in DOMAIN completed_tasks' /\ k \notin DOMAIN completed_tasks) =>
                   completed_tasks'[k].result.status = task[k].search_data.status]_vars

\* A job that failed to open its driver has gone through the rest of its run,
\* the completion callback and a shutdown, still in ERROR.
TerminalAbsorbingWitness ==
    \E k \in DOMAIN completed_tasks :
       /\ task[k].pc = "returned"
       /\ task[k].search_data.status = ERROR
       /\ completed_tasks[k].result.status = ERROR
       /\ shutdown_pc = "done"

\* The number of item pages that yielded a record.
RecordsYielded(k) ==
    Cardinality({i \in 1..Len(task[k].outcomes) : task[k].outcomes[i] = "record"})

\* C18. Completed run with per-item failures.  A job whose discovery found
\* T >= 1 item URLs stays in SEARCHING_PAPERS while it visits them, whatever
\* each item page does, and after the loop it is COMPLETED with progress 100,
\* fetched_paper_count = T and as many papers as pages yielded a record; the
\* completed event and the history record carry that snapshot.
CompletedWithItemFailures ==
    \A k \in DOMAIN task :
       LET d == task[k].search_data
           T == d.total_paper_count
       IN T >= 1 =>
            /\ task[k].pc \in {"search_item", "extract_paper_details"} =>
                 d.status = SEARCHING_PAPERS
            /\ task[k].pc \in {"send_completed", "cleanup", "callback", "returned"} =>
                 /\ Len(task[k].outcomes) = T
                 /\ d.status = COMPLETED
                 /\ d.progress = 10000
                 /\ d.fetched_paper_count = T
                 /\ Len(d.papers) = RecordsYielded(k)
            /\ RunEnded(k) =>
                 /\ LastPublished(k).event = FETCHED_COMPLETED_WITH_PAPERS_INFO
                 /\ LastPublished(k).data = d
            /\ (task[k].pc = "returned" /\ k \in DOMAIN completed_tasks) =>
                 completed_tasks[k].result = d

\* Three item URLs: one yields a record, one nothing, one raises; the run is
\* over and recorded.
CompletedWithItemFailuresWitness ==
    \E k \in DOMAIN completed_tasks :
       /\ task[k].pc = "returned"
       /\ task[k].outcomes = <<"record", "none", "raise">>
       /\ completed_tasks[k].result.status = COMPLETED
       /\ completed_tasks[k].result.fetched_paper_count = 3
       /\ Len(completed_tasks[k].result.papers) = 1

\* The published snapshots of job k taken during the search with fetched_count n.
ItemSnapshots(k, n) ==
    {j \in 1..Len(task[k].published) :
       /\ task[k].published[j].data.status = SEARCHING_PAPERS
       /\ task[k].published[j].data.fetched_paper_count = n}

\* C19. One snapshot per item regardless of outcome.  For every item the loop
\* has gone through (index i, fetched_count i + 1), exactly one progress
\* snapshot with that fetched_count has been handed to the publisher, whether
\* the item page yielded a record, yielded nothing, or raised.
OneSnapshotPerItem ==
    \A k \in DOMAIN task :
       \A n \in 1..task[k].index : Cardinality(ItemSnapshots(k, n)) = 1

\* Job k went past _initialize_driver without a driver: opening it failed.
SessionInitFailed(k) ==
    /\ task[k].driver = "none"
    /\ task[k].pc \in {"send_failed", "cleanup", "callback", "returned"}

\* The failed event reporting job k in its present state.
FailedEvent(k) ==
    [ event |-> FAILED_FETCH_A_GOOGLE_SCHOLAR_URL,
      client_id |-> task[k].client_id,
      data |-> task[k].search_data ]

\* C20. Session init failure.  When opening the driver fails the job goes
\* from PENDING directly to ERROR with a non-empty error_message; no discovery
\* or item processing happens (papers_urls and papers stay empty, no count is
\* set, progress stays 0, no item page is visited); and once run has sent its
\* event, the failed event carrying that ERROR state is the only event
\* published for the job.
SessionInitFailure ==
    [][\A k \in DOMAIN task' :
         SessionInitFailed(k)' =>
           /\ task'[k].search_data.status = ERROR
           /\ task'[k].search_data.error_message # ""
           /\ task'[k].search_data.papers_urls = <<>>
           /\ task'[k].search_data.papers = <<>>
           /\ task'[k].search_data.total_paper_count = None
           /\ task'[k].search_data.fetched_paper_count = None
           /\ task'[k].search_data.progress = 0
           /\ task'[k].search_data.author_name = ""
           /\ task'[k].index = 0
           /\ task'[k].outcomes = <<>>
           /\ task'[k].published =
                IF task'[k].pc = "send_failed" THEN <<>> ELSE <<FailedEvent(k)'>>
           /\ (k \in DOMAIN task /\ ~SessionInitFailed(k)) =>
                /\ task[k].pc = "initialize_driver"
                /\ task[k].search_data.status = PENDING
                /\ task[k].published = <<>>]_vars

\* A job whose driver could not be opened has run to its end and has been
\* recorded: its failed event is published.
SessionInitFailureWitness ==
    \E k \in DOMAIN task :
       /\ SessionInitFailed(k)
       /\ task[k].pc = "returned"
       /\ k \in DOMAIN completed_tasks
       /\ Len(task[k].published) = 1

\* The jobs whose driver is open.
OpenSessions == {k \in DOMAIN task : task[k].driver = "open"}

\* C21. Bounded open sessions.  However many jobs have been submitted, at
\* most max_workers drivers are open at once: a driver is open only while a
\* pool thread executes its job, and the pool threads execute at most
\* max_workers jobs at a time, one each.
BoundedOpenSessions ==
    /\ Cardinality(OpenSessions) <= max_workers
    /\ Cardinality(Busy) <= max_workers

\* What the driver, the author page and the item pages of job k did.
PageBehaviour(k) == <<task[k].page, task[k].outcomes>>

\* Job k is inside a publish call, awaiting a write that raises.
Sending(k) == task[k].pc \in {"send_text", "send_text_unregistered"}

\* Job k made a publish call that returned false.
PublishFailed(k) == \E i \in 1..Len(task[k].sends) : ~task[k].sends[i]

\* C22. Publish failure does not affect the job.  Two finished runs on the
\* same page behaviour end in the same job state (status, progress,
\* fetched_paper_count, total_paper_count, papers, error_message) and have
\* handed the same snapshots to the publisher, whichever of their publish
\* calls returned false (client not registered, client inactive, websocket
\* error); and every publish call returns to the job: each snapshot handed
\* over has its returned value, but for the one of a call that is under way.
PublishFailureIndependent ==
    /\ \A k \in DOMAIN task :
         Len(task[k].sends) = Len(task[k].published) - (IF Sending(k) THEN 1 ELSE 0)
    /\ \A j, k \in DOMAIN task :
         (RunEnded(j) /\ RunEnded(k) /\ PageBehaviour(j) = PageBehaviour(k)) =>
           /\ task[j].search_data = task[k].search_data
           /\ task[j].papers = task[k].papers
           /\ task[j].driver = task[k].driver
           /\ \A i \in 1..Len(task[j].published) :
                /\ task[j].published[i].event = task[k].published[i].event
                /\ task[j].published[i].data = task[k].published[i].data

\* The reference run delivered every message and completed with a record; a
\* second run on the same pages, some of whose publish calls failed and some
\* not, has ended too, leaving the client inactive.
PublishFailureIndependentWitness ==
    \E k \in DOMAIN task :
       /\ k # ReferenceId
       /\ ReferenceDone
       /\ RunEnded(k)
       /\ PageBehaviour(k) = PageBehaviour(ReferenceId)
       /\ task[ReferenceId].search_data.status = COMPLETED
       /\ Len(task[ReferenceId].search_data.papers) = 1
       /\ ~PublishFailed(ReferenceId)
       /\ PublishFailed(k)
       /\ \E i \in 1..Len(task[k].sends) : task[k].sends[i]
       /\ JobClient \in DOMAIN clients /\ ~clients[JobClient]

\* The number of records job k had extracted when it had visited n item pages.
RecordsAfter(k, n) ==
    Cardinality({i \in 1..n : task[k].outcomes[i] = "record"})

\* C23. Extracted records are visible as soon as they exist.  Every progress
\* snapshot a job hands over during the search carries in papers all the
\* records extracted so far, and so does the job's own state a reader sees.
RecordsVisibleAtOnce ==
    \A k \in DOMAIN task :
       /\ \A i \in 1..Len(task[k].published) :
            LET d == task[k].published[i].data IN
            d.status = SEARCHING_PAPERS =>
               Len(d.papers) = RecordsAfter(k, d.fetched_paper_count)
       /\ task[k].search_data.status = SEARCHING_PAPERS =>
            Len(task[k].search_data.papers) = RecordsAfter(k, task[k].index)

\* The places of url in the list urls.
Places(url, urls) == {i \in 1..Len(urls) : urls[i] = url}

\* The records items all come from the item URLs urls, one record per URL at
\* most, in the order of urls, and each has a title.
RecordsOf(items, urls) ==
    /\ \A i \in 1..Len(items) :
         /\ items[i].title # << >>
         /\ Cardinality(Places(items[i].url, urls)) = 1
    /\ \A i, j \in 1..Len(items) :
         i < j => \A a \in Places(items[i].url, urls), b \in Places(items[j].url, urls) :
                     a < b
    /\ Len(items) <= Len(urls)

\* The counts of snapshot d agree with its item URLs once the discovery is done.
CountsOf(d) ==
    d.total_paper_count # None =>
       /\ d.total_paper_count = Len(d.papers_urls)
       /\ d.fetched_paper_count # None => d.fetched_paper_count <= d.total_paper_count

\* C24. Record/URL consistency.  In every state of a job, in its own state, in
\* the records it has extracted so far and in every snapshot it handed over:
\* every record has a non-empty title and a source URL that is one of the item
\* URLs, the records' URLs are pairwise distinct and in discovery order, there
\* are no more records than item URLs, and once the discovery is done
\* fetched_paper_count <= total_paper_count = len(papers_urls).
RecordUrlConsistency ==
    \A k \in DOMAIN task :
       LET d == task[k].search_data IN
       /\ RecordsOf(d.papers, d.papers_urls)
       /\ RecordsOf(task[k].papers, d.papers_urls)
       /\ CountsOf(d)
       /\ \A i \in 1..Len(task[k].published) :
            /\ RecordsOf(task[k].published[i].data.papers,
                         task[k].published[i].data.papers_urls)
            /\ CountsOf(task[k].published[i].data)

\* A completed job whose page listed three links in descending order; its
\* first and third item pages yielded a record, the second, whose only title
\* was a meta title of blanks, did not.
RecordUrlConsistencyWitness ==
    \E k \in DOMAIN task :
       /\ task[k].search_data.status = COMPLETED
       /\ task[k].search_data.papers_urls = <<3, 2, 1>>
       /\ task[k].outcomes = <<"record", "blank_meta", "record">>
       /\ Len(task[k].search_data.papers) = 2
       /\ task[k].search_data.papers[1].url = 3
       /\ task[k].search_data.papers[2].url = 1
       /\ task[k].search_data.fetched_paper_count = 3

\* C25. Identity uniqueness across the registry.  No identity is held by a
\* record of the running set and by a record of the history cache at once,
\* whatever is submitted, completed or cancelled, a second submission of an
\* identity whose earlier run is in the history cache included.
IdentityHeldOnce ==
    running_tasks \cap DOMAIN completed_tasks = {}

\* C26. Shutdown stops intake.  Once shutdown has stopped the executor, every
\* scholar_info call raises instead of returning an id and leaves the running
\* set and the history cache as they were, with _task_lock released; and a
\* shutdown(wait=True) returns only when no job is left in the running set.
ShutdownStopsIntake ==
    [][/\ \A url \in Urls, c \in ClientIds, s \in SearchIds :
            (executor_shutdown /\ scholar_info(url, c, s)) =>
               /\ ret'.value = "RuntimeError"
               /\ running_tasks' = running_tasks
               /\ completed_tasks' = completed_tasks
               /\ lock' = "free"
       /\ (shutdown_pc = "join" /\ shutdown_pc' = "done") => running_tasks = {}]_vars

\* The years in [1900, 2030] that text contains as a number of four digits
\* standing by itself.
YearsInRange(text) ==
    { int(SubSeq(text, i, i + 3)) : i \in
        {j \in 1..Len(text) :
           /\ DigitsAt(text, j, 4)
           /\ (j = 1 \/ ~IsWordChar(text[j - 1]))
           /\ (j + 3 = Len(text) \/ ~IsWordChar(text[j + 4]))
           /\ 1900 <= int(SubSeq(text, j, j + 3))
           /\ int(SubSeq(text, j, j + 3)) <= 2030} }

\* text contains a full date: year, month and day in one of the four
\* notations, with a year, a month and a day that exist.
HasFullDate(text) ==
    \E n \in 1..Len(date_patterns) :
       \E m \in PatternMatches(date_patterns[n], text) :
          LET j == m[1] + m[2] + 1
              k == j + m[3] + 1
          IN DateIsReasonable(DateOfGroups(<< SubSeq(text, m[1], m[1] + m[2] - 1),
                                              SubSeq(text, j, j + m[3] - 1),
                                              SubSeq(text, k, k + m[4] - 1) >>))

\* C27. Date defaulting.  For a text that contains a four-digit year in
\* [1900, 2030] and no full date, _parse_date_info returns such a year Y of
\* the text and the date Y-01-01; for a text with neither it returns year 0
\* and the record gets the date 1900-01-01; the date of a record is never
\* empty.
DateDefaulting ==
    (call.fn = "_parse_date_info" /\ call.pc = "returned") =>
       /\ (YearsInRange(call.arg) # {} /\ ~HasFullDate(call.arg)) =>
             /\ call.result.year \in YearsInRange(call.arg)
             /\ call.result.date =
                  str(call.result.year) \o <<"-", "0", "1", "-", "0", "1">>
       /\ (YearsInRange(call.arg) = {} /\ ~HasFullDate(call.arg)) =>
             /\ call.result.year = 0
             /\ call.paper_info.date = <<"1", "9", "0", "0", "-", "0", "1", "-", "0", "1">>
       /\ call.paper_info.date # << >>

\* C28. Author list validity.  For every input text the list of authors that
\* _parse_authors returns has at most 10 entries, holds no name twice, and
\* each entry is longer than one character and is not a number.
AuthorListValid ==
    (call.fn = "_parse_authors" /\ call.pc = "returned") =>
       /\ Len(call.result) <= 10
       /\ \A i, j \in 1..Len(call.result) : call.result[i] = call.result[j] => i = j
       /\ \A i \in 1..Len(call.result) :
             /\ Len(call.result[i]) > 1
             /\ \E n \in 1..Len(call.result[i]) :
                   call.result[i][n] \notin {"0", "1", "2", "3", "4", "5", "6", "7", "8", "9"}

\* C29. Summary bound.  The description of a record is absent or a text
\* longer than 20 characters and no longer than 500; a description of the
\* page that is longer than 500 is stored cut to 500 characters.
SummaryBound ==
    (call.fn = "description" /\ call.pc = "returned") =>
       LET description == call.paper_info.description
           raw == IF call.arg.gsh_csp.found THEN strip(call.arg.gsh_csp.text)
                  ELSE strip(call.arg.field_value)
       IN /\ ~description.is_none =>
               (Len(description.text) > 20 /\ Len(description.text) <= 500)
          /\ (strip(call.arg.field_value) # << >> /\ Len(raw) > 500) =>
               (~description.is_none /\ description.text = SubSeq(raw, 1, 500))

\* C30. PENDING ends before the session opens.  A job's status leaves PENDING
\* when a worker picks the job up, before its driver is opened: no job has an
\* open driver, or is opening one, while its status is PENDING.
PendingEndsBeforeSession ==
    \A k \in DOMAIN task :
       (task[k].driver = "open" \/ task[k].pc = "initialize_driver")
          => task[k].search_data.status # PENDING

\* The stages of a job in their order, and the place of a stage in it.
Stages == <<PENDING, COLLECTING_INFO, COLLECTED_INFO, SEARCHING_PAPERS, COMPLETED>>
StageRank(status) == CHOOSE n \in 1..Len(Stages) : Stages[n] = status

\* A change of status from a to b that the stage order allows: the next
\* stage, or ERROR from a status that is not terminal.
StageStep(a, b) ==
    \/ (a # ERROR /\ b # ERROR /\ StageRank(b) = StageRank(a) + 1)
    \/ (a \notin Terminal /\ b = ERROR)

\* b may be published after a: the same stage, a later one, or ERROR after a
\* status that is not terminal.
StageFollows(a, b) ==
    \/ a = b
    \/ (a # ERROR /\ b # ERROR /\ StageRank(a) < StageRank(b))
    \/ (a \notin Terminal /\ b = ERROR)

\* C31. Stage order.  The status of a job changes only from a stage to the
\* next one of PENDING, COLLECTING_INFO, COLLECTED_INFO, SEARCHING_PAPERS,
\* COMPLETED, or from a status that is not terminal to ERROR; and of two
\* snapshots of the job published one after the other, the second carries the
\* status of the first or one that follows it in this order.
StageOrder ==
    [][\A k \in DOMAIN task :
         (k \in DOMAIN task' /\ futures_submitted'[k] = futures_submitted[k]) =>
            /\ \/ task'[k].search_data.status = task[k].search_data.status
               \/ StageStep(task[k].search_data.status, task'[k].search_data.status)
            /\ \A i \in 1..(Len(task'[k].published) - 1) :
                  StageFollows(task'[k].published[i].data.status,
                               task'[k].published[i + 1].data.status)]_vars

\* A job has gone through every stage and published each of them from
\* COLLECTING_INFO on.
StageOrderWitness ==
    \E k \in DOMAIN task :
       /\ task[k].pc = "returned"
       /\ task[k].search_data.status = COMPLETED
       /\ {task[k].published[i].data.status : i \in 1..Len(task[k].published)}
            = {COLLECTING_INFO, COLLECTED_INFO, SEARCHING_PAPERS, COMPLETED}

\* All the snapshots of job k handed to the publisher.
Snapshots(k) == {task[k].published[i].data : i \in 1..Len(task[k].published)}

\* progress (in hundredths) is 25 + fetched / total * 70 rounded to two
\* decimals: no hundredth is nearer to the exact value.
RoundedProgress(progress, fetched, total) ==
    /\ 2 * total * (progress - 2500) - 2 * 7000 * fetched <= total
    /\ 2 * 7000 * fetched - 2 * total * (progress - 2500) <= total

\* C32. Progress formula.  Every published snapshot with status
\* SEARCHING_PAPERS has progress = 25 + fetched_count / total_count * 70
\* rounded to two decimals, which is more than 25 and at most 95; the
\* snapshot published after the discovery has progress 25; and a published
\* snapshot has progress 100 only with status COMPLETED.
ProgressFormula ==
    \A k \in DOMAIN task : \A snapshot \in Snapshots(k) :
       /\ snapshot.status = SEARCHING_PAPERS =>
             /\ snapshot.total_paper_count > 0
             /\ snapshot.fetched_paper_count \in 1..snapshot.total_paper_count
             /\ RoundedProgress(snapshot.progress, snapshot.fetched_paper_count,
                                snapshot.total_paper_count)
             /\ snapshot.progress > 2500
             /\ snapshot.progress <= 9500
             /\ (snapshot.fetched_paper_count = snapshot.total_paper_count
                    => snapshot.progress = 9500)
       /\ snapshot.status = COLLECTED_INFO => snapshot.progress = 2500
       /\ snapshot.progress = 10000 => snapshot.status = COMPLETED

\* A snapshot of the second of three items was published: 25 + 46.67.
ProgressFormulaWitness ==
    \E k \in DOMAIN task : \E snapshot \in Snapshots(k) :
       /\ snapshot.status = SEARCHING_PAPERS
       /\ snapshot.total_paper_count = 3
       /\ snapshot.fetched_paper_count = 2
       /\ snapshot.progress = 7167

\* C33. Uninterrupted run.  The open driver of a job is closed by no thread
\* but the worker that runs the job, in the finally clause at the end of its
\* run: no step of cancel_task or shutdown closes or replaces it.
UninterruptedRun ==
    [][\A k \in DOMAIN task :
         ( /\ k \in DOMAIN task'
           /\ task[k].driver = "open"
           /\ task'[k].driver # "open" ) =>
             /\ futures_submitted'[k] = futures_submitted[k]
             /\ task[k].pc = "cleanup"
             /\ task'[k].pc \in {"callback", "returned"}]_vars

\* C34. Every job leaves the running set.  Under fair scheduling, with page
\* operations that return, a submitted job that nobody cancels is eventually
\* recorded in the history cache and no longer in the running set.
EveryJobLeavesRunning ==
    \A k \in {TaskId(JobClient, JobSearch)} :
       (k \in DOMAIN task) ~> (k \in DOMAIN completed_tasks /\ k \notin running_tasks)

\* The places of the terminal events among the events job k published.
TerminalPlaces(k) ==
    {i \in 1..Len(task[k].published) : task[k].published[i].event \in TerminalEvents}

\* C35. Terminal event kind matches terminal status.  The completed event is
\* published only with a snapshot whose status is COMPLETED and the failed
\* event only with one whose status is ERROR; a job whose run has ended has
\* published exactly one terminal event, as its last event.
TerminalEventMatchesStatus ==
    \A k \in DOMAIN task :
       /\ \A i \in 1..Len(task[k].published) :
             /\ task[k].published[i].event = FETCHED_COMPLETED_WITH_PAPERS_INFO
                   => task[k].published[i].data.status = COMPLETED
             /\ task[k].published[i].event = FAILED_FETCH_A_GOOGLE_SCHOLAR_URL
                   => task[k].published[i].data.status = ERROR
       /\ RunEnded(k) => TerminalPlaces(k) = {Len(task[k].published)}

\* C36. Read operations are read-only.  A call of get_search_status, of
\* get_recent_completed_tasks with any limit, or of get_all_tasks_status
\* leaves the running set, the history cache and the completion-order list
\* as they were.
ReadOperationsReadOnly ==
    [][( /\ ret = NoReturn
         /\ ret'.op \in {"get_search_status", "get_recent_completed_tasks",
                         "get_all_tasks_status"} ) =>
            /\ running_tasks' = running_tasks
            /\ completed_tasks' = completed_tasks
            /\ completed_tasks_order' = completed_tasks_order]_vars

\* C37. History structure consistency.  The completion-order list holds no
\* identity twice, its identities are the keys of the history cache, and the
\* completed count that get_all_tasks_status reports is the length of the
\* list it reports.
HistoryStructureConsistent ==
    /\ \A i, j \in 1..Len(completed_tasks_order) :
          completed_tasks_order[i] = completed_tasks_order[j] => i = j
    /\ {completed_tasks_order[i] : i \in 1..Len(completed_tasks_order)}
          = DOMAIN completed_tasks
    /\ ret.op = "get_all_tasks_status" =>
          /\ ret.value.completed_tasks = Len(ret.value.completed_task_ids)
          /\ ret.value.completed_tasks = ret.value.completed_task_ids_count

\* get_all_tasks_status reports a full history cache, after an identity that
\* was in it has completed a second time and an older record was evicted.
HistoryStructureConsistentWitness ==
    /\ ret.op = "get_all_tasks_status"
    /\ ret.value.completed_tasks = max_completed_tasks
    /\ Len(completed_tasks_order) = max_completed_tasks
    /\ Resubmits > 0
    /\ \E k \in Completed : k \notin DOMAIN completed_tasks
    /\ \E k \in DOMAIN completed_tasks : LastIndex(k) = Len(completion_log)
                                          /\ futures_submitted[k] = 2

\* The job that the registry holds under the key of the pair (client_id,
\* search_id) was submitted by this pair.
OwnJob(client_id, search_id) ==
    LET task_id == TaskId(client_id, search_id)
    IN (task_id \in running_tasks \/ task_id \in DOMAIN completed_tasks) =>
          /\ task[task_id].client_id = client_id
          /\ task[task_id].search_id = search_id

\* C38. Distinct identities are distinct jobs.  Two pairs (client_id,
\* search_id) that differ are never treated as the same job: a submission, a
\* status lookup or a cancellation by one pair never finds, under its
\* registry key, the job that another pair submitted.
DistinctIdentitiesDistinctJobs ==
    [][\A p \in IdentityPairs :
         ( \/ scholar_info("u", p[1], p[2])
           \/ get_search_status(p[1], p[2])
           \/ cancel_task(p[1], p[2]) ) => OwnJob(p[1], p[2])]_vars

\* The clients that were handed a snapshot of job k.
Receivers(k) ==
    {task[k].published[i].client_id :
       i \in {j \in 1..Len(task[k].sends) : task[k].sends[j]}}

\* C39. Snapshots go only to the submitter.  Every snapshot of a job that is
\* delivered goes to the connection that sent the start message of the job,
\* so that no connection receives snapshots because of another connection's
\* start messages.
SnapshotsOnlyToSubmitter ==
    \A k \in DOMAIN start_requests : Receivers(k) \subseteq {start_requests[k]}

====
